---- MODULE Spec2Model ----
(***************************************************************************)
(* Model of infraflow's Terraform generators and of the watcher that       *)
(* merges their staged files.                                              *)
(*                                                                         *)
(* Text is modelled as a sequence of tokens (Str): separators and digits   *)
(* are tokens of one character, so that String.split and parseInt work on  *)
(* the text as the code's do.  A generated artifact is the sequence of the *)
(* lines the generator pushes; a line is the record                        *)
(*   [k: kind, n: the name it declares or sets,                            *)
(*    f: names of the fields it carries, v: their values (Str each),       *)
(*    vars: the var.<name> it references, res: the resource addresses it   *)
(*    references].                                                         *)
(* Lines of fixed text that neither declare nor reference anything         *)
(* (descriptions, types, tags, blank lines) are left out.                  *)
(***************************************************************************)
EXTENDS Integers, Sequences, FiniteSets, TLC

VARIABLES
  gen,        \* the generator script of the invocation ("none": not started)
  options,    \* program.opts() of the invocation
  exitCode,   \* -1 while not run, 0 after a normal end, 1 after process.exit(1)
  outDir,     \* the invocation's output directory: file name -> artifact
  watchDir,       \* WATCH_FOLDER: file name -> content
  outputFolder,   \* OUTPUT_FOLDER: file name -> the sections appended to it
  processedFiles, \* the Set processedFiles, in insertion order
  announced,      \* the paths chokidar has emitted 'add' for
  startup,        \* the initial-regeneration function: "readdir" until it resumes
  passes,         \* the calls of regenerateTargetFiles, in the order they started
  request,        \* the /generate-files request of the server and where it stands
  nodes,          \* the client's canvas: the nodes of the flow, in array order
  shown,          \* the ids of the group nodes whose show state is true
  selectedNode,   \* the client's selectedNode (NoNode: null)
  modules         \* the client's modules list: what is sent to /generate-files

genVars == <<gen, options, exitCode, outDir>>

asmVars == <<watchDir, outputFolder, processedFiles, announced, startup, passes>>

srvVars == <<request>>

cliVars == <<nodes, shown, selectedNode, modules>>

vars == <<genVars, asmVars, srvVars, cliVars>>

(***************************************************************************)
(* Bounds                                                                  *)
(***************************************************************************)
MaxRecs == 2       \* longest list of repeated --attribute / --gsi / --record options
MaxFiles == 3      \* most files ever put into the watch folder
MaxModules == 2    \* longest module list of a request
MaxEvents == 3     \* most 'add' events the watcher handles while a request is served
MaxGroups == 1     \* most group nodes on the canvas
MaxEntries == 2    \* longest modules list of the client

(***************************************************************************)
(* JavaScript values and string functions                                  *)
(***************************************************************************)
Range(s) == { s[i] : i \in 1..Len(s) }

SeqsUpTo(S, n) == UNION { [1..m -> S] : m \in 0..n }

\* an option that was not given
UNDEF == <<"<undefined>">>

\* truthiness of a string option: undefined and "" are falsy
Truthy(s) == s # UNDEF /\ s # <<>>

\* `${x}` in a template literal
Interp(x) == IF x = UNDEF THEN <<"undefined">> ELSE x

\* a || b on strings
OrElse(a, b) == IF Truthy(a) THEN a ELSE b

\* String.prototype.split(sep): the pieces between the separators
RECURSIVE SplitFrom(_, _, _, _)
SplitFrom(s, sep, i, cur) ==
  IF i > Len(s) THEN <<cur>>
  ELSE IF s[i] = sep THEN <<cur>> \o SplitFrom(s, sep, i + 1, <<>>)
  ELSE SplitFrom(s, sep, i + 1, Append(cur, s[i]))

Split(s, sep) == SplitFrom(s, sep, 1, <<>>)

\* parts[i] of a JS array (0-based index i): undefined past the end
At(parts, i) == IF i + 1 <= Len(parts) THEN parts[i + 1] ELSE UNDEF

Digits == <<"0", "1", "2", "3", "4", "5", "6", "7", "8", "9">>

IsDigit(c) == \E d \in 1..10 : Digits[d] = c

DigitVal(c) == (CHOOSE d \in 1..10 : Digits[d] = c) - 1

RECURSIVE LeadingDigits(_, _)
LeadingDigits(s, i) ==
  IF i <= Len(s) /\ IsDigit(s[i]) THEN 1 + LeadingDigits(s, i + 1) ELSE 0

RECURSIVE DigitsValue(_, _)
DigitsValue(s, n) ==
  IF n = 0 THEN 0 ELSE 10 * DigitsValue(s, n - 1) + DigitVal(s[n])

\* A JS number or undefined: [undef, nan, n]
NumUndef == [undef |-> TRUE, nan |-> FALSE, n |-> 0]

NaN == [undef |-> FALSE, nan |-> TRUE, n |-> 0]

Num(n) == [undef |-> FALSE, nan |-> FALSE, n |-> n]

\* parseInt(s, 10): the value of the leading decimal digits, NaN when there
\* are none (the modelled texts carry no sign and no leading white space)
ParseInt(s) ==
  IF s = UNDEF \/ LeadingDigits(s, 1) = 0 THEN NaN
  ELSE Num(DigitsValue(s, LeadingDigits(s, 1)))

\* number -> text, as a template literal prints it
NumStr(r) ==
  IF r.undef THEN <<"undefined">> ELSE IF r.nan THEN <<"NaN">> ELSE <<ToString(r.n)>>

(***************************************************************************)
(* Lines of an artifact                                                    *)
(***************************************************************************)
Line(k, n, f, v, vs, rs) ==
  [k |-> k, n |-> n, f |-> f, v |-> v, vars |-> vs, res |-> rs]

\* variable "<n>" { ... default = <d> }
Variable(n, d) == Line("variable", n, <<"default">>, <<d>>, <<>>, <<>>)
\* variable "<n>" { ... } without a default
VariableNoDefault(n) == Line("variable", n, <<>>, <<>>, <<>>, <<>>)
\* <n> = var.<v>
SetVar(n, v) == Line("arg", n, <<>>, <<>>, <<v>>, <<>>)
\* <n> = "<text>"
SetText(n, t) == Line("arg", n, <<n>>, <<t>>, <<>>, <<>>)
\* <n> = <resource address>.<attribute>
SetRes(n, r) == Line("arg", n, <<>>, <<>>, <<>>, <<r>>)
\* resource "<type>" "<name>" {   (n is type.name)
Resource(n) == Line("resource", n, <<>>, <<>>, <<>>, <<>>)
\* output "<n>" { value = <resource address>.<attribute> }
Output(n, rs) == Line("output", n, <<>>, <<>>, <<>>, rs)
\* depends_on = [ ... ]
DependsOn(rs) == Line("depends_on", "depends_on", <<>>, <<>>, <<>>, rs)
\* <n> {
Block(n) == Line("block", n, <<>>, <<>>, <<>>, <<>>)
\* }
End == Line("end", "}", <<>>, <<>>, <<>>, <<>>)

\* the var.<name> an artifact references
VarRefs(art) == UNION { Range(art[i].vars) : i \in 1..Len(art) }
\* the variables an artifact declares
VarDecls(art) == { art[i].n : i \in { j \in 1..Len(art) : art[j].k = "variable" } }
\* the resource addresses an artifact references
ResRefs(art) == UNION { Range(art[i].res) : i \in 1..Len(art) }
\* the resources an artifact declares
ResDecls(art) == { art[i].n : i \in { j \in 1..Len(art) : art[j].k = "resource" } }
\* the lines of kind k, in order
RECURSIVE Select(_, _)
Select(art, k) ==
  IF art = <<>> THEN <<>>
  ELSE (IF Head(art).k = k THEN <<Head(art)>> ELSE <<>>) \o Select(Tail(art), k)

\* file names
FileName(kind, type, seq) == <<kind, "_", type, "_">> \o seq \o <<".tf">>

\* the files a run of generateTerraformFiles leaves in the output directory
WriteFiles(dir, names, arts) ==
  [f \in DOMAIN dir \cup Range(names) |->
     IF \E i \in 1..Len(names) : names[i] = f
     THEN arts[CHOOSE i \in 1..Len(names) : names[i] = f /\ \A j \in i+1..Len(names) : names[j] # f]
     ELSE dir[f]]

EmptyDir == [f \in {} |-> <<>>]

(***************************************************************************)
(* generateDynamoDBTerraform.ts                                            *)
(***************************************************************************)
\* program.opts(): commander fills the declared defaults and applies parseInt
DynamoOpts(a) ==
  [a EXCEPT
     !.billingMode   = IF a.billingMode = UNDEF THEN <<"PAY_PER_REQUEST">> ELSE a.billingMode,
     !.readCapacity  = IF a.readCapacity = UNDEF THEN NumUndef ELSE ParseInt(a.readCapacity),
     !.writeCapacity = IF a.writeCapacity = UNDEF THEN NumUndef ELSE ParseInt(a.writeCapacity)]

\* .requiredOption: commander ends the process when one is not given
DynamoRequiredGiven(a) ==
  a.tableName # UNDEF /\ a.hashKey # UNDEF /\ a.hashKeyType # UNDEF

\* the validations without the one of the stream view type
DynamoValidWithoutStream(o) ==
  /\ ~(o.billingMode = <<"PROVISIONED">>
       /\ (o.readCapacity.undef \/ o.writeCapacity.undef))
  /\ ~(Truthy(o.rangeKey) /\ ~Truthy(o.rangeKeyType))

\* the three validations before the output directory is made
DynamoValid(o) ==
  /\ ~(o.billingMode = <<"PROVISIONED">>
       /\ (o.readCapacity.undef \/ o.writeCapacity.undef))
  /\ ~(Truthy(o.rangeKey) /\ ~Truthy(o.rangeKeyType))
  /\ ~(Truthy(o.streamViewType) /\ ~o.streamEnabled)

\* one entry of the attributes default list
DynamoAttrEntry(attr) ==
  LET parts == Split(attr, ":")
  IN Line("entry", "attributes", <<"name", "type">>,
          <<Interp(At(parts, 0)), Interp(At(parts, 1))>>, <<>>, <<>>)

\* the fields of a --gsi record as both artifacts compute them
GsiFields(o, gsi) ==
  LET parts == Split(gsi, ":")
      provisioned == o.billingMode = <<"PROVISIONED">>
  IN [name          |-> At(parts, 0),
      hashKey       |-> At(parts, 1),
      hashKeyType   |-> At(parts, 2),
      rangeKey      |-> IF Len(parts) > 3 THEN At(parts, 3) ELSE <<>>,
      rangeKeyType  |-> IF Len(parts) > 3 THEN OrElse(At(parts, 4), <<>>) ELSE <<>>,
      readCapacity  |-> IF provisioned THEN OrElse(At(parts, 5), <<"5">>) ELSE <<>>,
      writeCapacity |-> IF provisioned THEN OrElse(At(parts, 6), <<"5">>) ELSE <<>>]

\* one entry of the global_secondary_indexes default list
DynamoGsiEntry(o, gsi) ==
  LET g == GsiFields(o, gsi)
      range == Truthy(g.rangeKey) /\ Truthy(g.rangeKeyType)
      provisioned == o.billingMode = <<"PROVISIONED">>
  IN Line("entry", "global_secondary_indexes",
          <<"name", "hash_key", "hash_key_type">>
            \o (IF range THEN <<"range_key", "range_key_type">> ELSE <<>>)
            \o (IF provisioned THEN <<"read_capacity", "write_capacity">> ELSE <<>>),
          <<Interp(g.name), Interp(g.hashKey), Interp(g.hashKeyType)>>
            \o (IF range THEN <<Interp(g.rangeKey), Interp(g.rangeKeyType)>> ELSE <<>>)
            \o (IF provisioned THEN <<Interp(g.readCapacity), Interp(g.writeCapacity)>> ELSE <<>>),
          <<>>, <<>>)

DynamoVariablesTF(o) ==
  <<Variable("table_name", Interp(o.tableName)),
    Variable("hash_key", Interp(o.hashKey)),
    Variable("hash_key_type", Interp(o.hashKeyType))>>
  \o (IF Truthy(o.rangeKey)
      THEN <<Variable("range_key", Interp(o.rangeKey)),
             Variable("range_key_type", Interp(o.rangeKeyType))>>
      ELSE <<>>)
  \o <<Variable("billing_mode", Interp(o.billingMode))>>
  \o (IF o.billingMode = <<"PROVISIONED">>
      THEN <<Variable("read_capacity", NumStr(o.readCapacity)),
             Variable("write_capacity", NumStr(o.writeCapacity))>>
      ELSE <<>>)
  \o (IF Len(o.attribute) > 0
      THEN <<VariableNoDefault("attributes")>>
           \o [i \in 1..Len(o.attribute) |-> DynamoAttrEntry(o.attribute[i])]
           \o <<End>>
      ELSE <<>>)
  \o (IF Len(o.gsi) > 0
      THEN <<VariableNoDefault("global_secondary_indexes")>>
           \o [i \in 1..Len(o.gsi) |-> DynamoGsiEntry(o, o.gsi[i])]
           \o <<End>>
      ELSE <<>>)
  \o (IF o.streamEnabled
      THEN <<Variable("stream_enabled", <<"true">>),
             Variable("stream_view_type", OrElse(o.streamViewType, <<"NEW_IMAGE">>))>>
      ELSE <<>>)
  \o (IF o.lifecyclePreventDestroy
      THEN <<Variable("prevent_destroy", <<"true">>)>>
      ELSE <<>>)

DynamoOutputsTF(o) ==
  <<Output("dynamodb_table_name", <<"aws_dynamodb_table.table">>),
    Output("dynamodb_table_arn", <<"aws_dynamodb_table.table">>)>>

\* the name and type lines main.tf pushes for one --attribute record
DynamoAttrLines(attr) ==
  LET parts == Split(attr, ":")
  IN <<SetText("name", Interp(At(parts, 0))), SetText("type", Interp(At(parts, 1)))>>

RECURSIVE DynamoAllAttrLines(_)
DynamoAllAttrLines(attrs) ==
  IF attrs = <<>> THEN <<>>
  ELSE DynamoAttrLines(Head(attrs)) \o DynamoAllAttrLines(Tail(attrs))

\* a global_secondary_index block that never carries capacities
DynamoGsiBlockWithoutCapacity(o, gsi) ==
  LET g == GsiFields(o, gsi)
  IN <<Block("global_secondary_index"),
       SetText("name", Interp(g.name)),
       SetText("hash_key", Interp(g.hashKey)),
       SetText("hash_key_type", Interp(g.hashKeyType))>>
     \o (IF Truthy(g.rangeKey) /\ Truthy(g.rangeKeyType)
         THEN <<SetText("range_key", Interp(g.rangeKey)),
                SetText("range_key_type", Interp(g.rangeKeyType))>>
         ELSE <<>>)
     \o <<SetText("projection_type", <<"ALL">>), End>>

\* the global_secondary_index block main.tf pushes for one --gsi record
DynamoGsiBlock(o, gsi) ==
  LET g == GsiFields(o, gsi)
  IN <<Block("global_secondary_index"),
       SetText("name", Interp(g.name)),
       SetText("hash_key", Interp(g.hashKey)),
       SetText("hash_key_type", Interp(g.hashKeyType))>>
     \o (IF Truthy(g.rangeKey) /\ Truthy(g.rangeKeyType)
         THEN <<SetText("range_key", Interp(g.rangeKey)),
                SetText("range_key_type", Interp(g.rangeKeyType))>>
         ELSE <<>>)
     \o <<SetText("projection_type", <<"ALL">>)>>
     \o (IF o.billingMode = <<"PROVISIONED">>
         THEN <<SetText("read_capacity", Interp(g.readCapacity)),
                SetText("write_capacity", Interp(g.writeCapacity))>>
         ELSE <<>>)
     \o <<End>>

RECURSIVE DynamoAllGsiBlocks(_, _)
DynamoAllGsiBlocks(o, gsis) ==
  IF gsis = <<>> THEN <<>>
  ELSE DynamoGsiBlock(o, Head(gsis)) \o DynamoAllGsiBlocks(o, Tail(gsis))

DynamoMainTF(o) ==
  <<Resource("aws_dynamodb_table.table"),
    SetVar("name", "table_name"),
    SetVar("billing_mode", "billing_mode"),
    SetVar("hash_key", "hash_key")>>
  \o (IF Truthy(o.rangeKey) THEN <<SetVar("range_key", "range_key")>> ELSE <<>>)
  \o (IF Len(o.attribute) > 0
      THEN <<Block("attribute")>> \o DynamoAllAttrLines(o.attribute) \o <<End>>
      ELSE <<>>)
  \o (IF o.billingMode = <<"PROVISIONED">>
      THEN <<SetVar("read_capacity", "read_capacity"),
             SetVar("write_capacity", "write_capacity")>>
      ELSE <<>>)
  \o (IF Len(o.gsi) > 0 THEN DynamoAllGsiBlocks(o, o.gsi) ELSE <<>>)
  \o (IF o.streamEnabled
      THEN <<SetVar("stream_enabled", "stream_enabled"),
             SetVar("stream_view_type", "stream_view_type")>>
      ELSE <<>>)
  \o (IF o.lifecyclePreventDestroy
      THEN <<Block("lifecycle"), SetVar("prevent_destroy", "prevent_destroy"), End>>
      ELSE <<>>)
  \o <<End>>

DynamoVariablesFile == FileName("variables", "dynamo", <<"2">>)
DynamoMainFile == FileName("main", "dynamo", <<"2">>)
DynamoOutputsFile == FileName("outputs", "dynamo", <<"2">>)

\* generateTerraformFiles
DynamoFiles(dir, o) ==
  WriteFiles(dir,
             <<DynamoVariablesFile, DynamoMainFile, DynamoOutputsFile>>,
             <<DynamoVariablesTF(o), DynamoMainTF(o), DynamoOutputsTF(o)>>)

\* The command lines the model runs the script with
AttrRaws ==
  { <<"id", ":", "S">>, <<"id">>, <<"ts", ":", "N", ":", "x">> }

GsiRaws ==
  { <<"byDate", ":", "date", ":", "S">>,
    <<"byUser", ":", "user", ":", "S", ":", "at", ":", "N">>,
    <<"byKind", ":", "kind", ":", "S", ":", "at", ":", "N", ":", "7", ":", "8">>,
    <<"byTag", ":", "tag", ":", "S", ":", "at">>,
    <<"byOwner", ":", "owner">> }

DynamoBaseArgs ==
  [tableName |-> <<"tbl">>, hashKey |-> <<"id">>, hashKeyType |-> <<"S">>,
   rangeKey |-> UNDEF, rangeKeyType |-> UNDEF, billingMode |-> UNDEF,
   readCapacity |-> UNDEF, writeCapacity |-> UNDEF,
   attribute |-> <<>>, gsi |-> <<>>,
   streamEnabled |-> FALSE, streamViewType |-> UNDEF,
   lifecyclePreventDestroy |-> FALSE]

\* every combination of the scalar options, without records and with the
\* records of the documented example
DynamoScalarArgs ==
  { [DynamoBaseArgs EXCEPT
       !.rangeKey = rk, !.rangeKeyType = rkt, !.billingMode = bm,
       !.readCapacity = rc, !.writeCapacity = wc,
       !.streamEnabled = se, !.streamViewType = svt,
       !.lifecyclePreventDestroy = pd,
       !.attribute = recs[1], !.gsi = recs[2]] :
      rk \in {UNDEF, <<"at">>}, rkt \in {UNDEF, <<"N">>},
      bm \in {UNDEF, <<"PROVISIONED">>},
      rc \in {UNDEF, <<"3">>}, wc \in {UNDEF, <<"4">>},
      se \in BOOLEAN, svt \in {UNDEF, <<"KEYS_ONLY">>}, pd \in BOOLEAN,
      recs \in { <<<<>>, <<>>>>,
                 << <<(<<"id", ":", "S">>)>>, <<(<<"byDate", ":", "date", ":", "S">>)>> >> } }

\* every list of records, under both billing modes
DynamoRecordArgs ==
  { [DynamoBaseArgs EXCEPT
       !.billingMode = bm, !.readCapacity = <<"3">>, !.writeCapacity = <<"4">>,
       !.attribute = at, !.gsi = gs] :
      bm \in {UNDEF, <<"PROVISIONED">>},
      at \in SeqsUpTo(AttrRaws, MaxRecs), gs \in SeqsUpTo(GsiRaws, MaxRecs) }

\* the required options given or not
DynamoRequiredArgs ==
  { [DynamoBaseArgs EXCEPT !.tableName = tn, !.hashKey = hk, !.hashKeyType = hkt] :
      tn \in {UNDEF, <<"tbl">>}, hk \in {UNDEF, <<"id">>}, hkt \in {UNDEF, <<"S">>} }

DynamoArgs == DynamoScalarArgs \cup DynamoRecordArgs \cup DynamoRequiredArgs

\* one run of the script on an empty output directory
RunDynamoDB(a) ==
  /\ gen = "none"
  /\ UNCHANGED <<asmVars, srvVars, cliVars>>
  /\ gen' = "dynamo"
  /\ options' = DynamoOpts(a)
  /\ IF DynamoRequiredGiven(a) /\ DynamoValid(DynamoOpts(a))
     THEN exitCode' = 0 /\ outDir' = DynamoFiles(outDir, DynamoOpts(a))
     ELSE exitCode' = 1 /\ outDir' = outDir


(***************************************************************************)
(* generateCloudFrontTerraform.ts                                          *)
(***************************************************************************)
\* String.prototype.toUpperCase on one token
UpperToken(c) ==
  CASE c = "us" -> "US"
    [] c = "ca" -> "CA"
    [] c = "de" -> "DE"
    [] c = "a" -> "A"
    [] c = "mx" -> "MX"
    [] c = "cname" -> "CNAME"
    [] c = "private" -> "PRIVATE"
    [] c = "Private" -> "PRIVATE"
    [] c = "public" -> "PUBLIC"
    [] OTHER -> c

ToUpperCase(s) == [i \in 1..Len(s) |-> UpperToken(s[i])]

\* String.prototype.trim: drop the white space at both ends
RECURSIVE TrimStart(_)
TrimStart(s) == IF s # <<>> /\ Head(s) = " " THEN TrimStart(Tail(s)) ELSE s

RECURSIVE TrimEnd(_)
TrimEnd(s) ==
  IF s # <<>> /\ s[Len(s)] = " " THEN TrimEnd(SubSeq(s, 1, Len(s) - 1)) ELSE s

Trim(s) == TrimEnd(TrimStart(s))

\* program.opts(): the declared defaults
CloudFrontOpts(a) ==
  [a EXCEPT
     !.viewerProtocolPolicy =
        IF a.viewerProtocolPolicy = UNDEF THEN <<"redirect-to-https">> ELSE a.viewerProtocolPolicy,
     !.geoRestriction = IF a.geoRestriction = UNDEF THEN <<"none">> ELSE a.geoRestriction]

CloudFrontRequiredGiven(a) ==
  a.distributionName # UNDEF /\ a.originDomainName # UNDEF /\ a.originId # UNDEF

\* the validations without the one of the logging bucket
CloudFrontValidWithoutLogging(o) ==
  /\ ~((o.viewerProtocolPolicy = <<"redirect-to-https">>
        \/ o.viewerProtocolPolicy = <<"https-only">>)
       /\ ~Truthy(o.sslCertificateArn))
  /\ ~((o.geoRestriction = <<"blacklist">> \/ o.geoRestriction = <<"whitelist">>)
       /\ ~Truthy(o.geoRestrictionIds))

\* the three validations
CloudFrontValid(o) ==
  /\ ~((o.viewerProtocolPolicy = <<"redirect-to-https">>
        \/ o.viewerProtocolPolicy = <<"https-only">>)
       /\ ~Truthy(o.sslCertificateArn))
  /\ ~(o.loggingEnabled /\ ~Truthy(o.loggingS3Bucket))
  /\ ~((o.geoRestriction = <<"blacklist">> \/ o.geoRestriction = <<"whitelist">>)
       /\ ~Truthy(o.geoRestrictionIds))

\* the ids split on commas and upper-cased, but not trimmed
GeoRestrictionIdsUntrimmed(o) ==
  IF Truthy(o.geoRestrictionIds)
  THEN LET ids == Split(o.geoRestrictionIds, ",")
       IN [i \in 1..Len(ids) |-> ToUpperCase(ids[i])]
  ELSE <<>>

\* geoRestrictionIds: split on commas, each id trimmed and upper-cased
GeoRestrictionIds(o) ==
  IF Truthy(o.geoRestrictionIds)
  THEN LET ids == Split(o.geoRestrictionIds, ",")
       IN [i \in 1..Len(ids) |-> ToUpperCase(Trim(ids[i]))]
  ELSE <<>>

CloudFrontVariablesTF(o) ==
  <<Variable("distribution_name", Interp(o.distributionName)),
    Variable("origin_domain_name", Interp(o.originDomainName)),
    Variable("origin_id", Interp(o.originId)),
    Variable("default_root_object", <<"index.html">>),
    Variable("enabled", <<"true">>),
    Variable("comment", <<>>),
    Variable("price_class", <<"PriceClass_All">>),
    Variable("viewer_protocol_policy", Interp(o.viewerProtocolPolicy))>>
  \o (IF Truthy(o.sslCertificateArn)
      THEN <<Variable("ssl_certificate_arn", Interp(o.sslCertificateArn))>>
      ELSE <<>>)
  \o <<Variable("minimum_tls_version", <<"TLSv1.2_2019">>)>>
  \o (IF o.loggingEnabled
      THEN <<Variable("logging_enabled", <<"true">>),
             Variable("logging_s3_bucket", Interp(o.loggingS3Bucket)),
             Variable("logging_prefix", <<"cloudfront-logs/">>)>>
      ELSE <<Variable("logging_enabled", <<"false">>)>>)
  \o <<Variable("geo_restriction", Interp(o.geoRestriction))>>
  \o (IF Len(GeoRestrictionIds(o)) > 0
      THEN <<Line("variable", "geo_restriction_ids",
                  [i \in 1..Len(GeoRestrictionIds(o)) |-> "default"],
                  GeoRestrictionIds(o), <<>>, <<>>)>>
      ELSE <<>>)
  \o (IF o.preventDestroy
      THEN <<Variable("prevent_destroy", <<"true">>)>>
      ELSE <<>>)

CloudFrontMainTF(o) ==
  <<Resource("aws_cloudfront_distribution.distribution"),
    Block("origin"),
    SetVar("domain_name", "origin_domain_name"),
    SetVar("origin_id", "origin_id"),
    End,
    SetVar("enabled", "enabled"),
    SetVar("comment", "comment"),
    SetVar("default_root_object", "default_root_object"),
    Block("default_cache_behavior"),
    SetVar("target_origin_id", "origin_id"),
    SetVar("viewer_protocol_policy", "viewer_protocol_policy"),
    End,
    SetVar("price_class", "price_class"),
    Block("viewer_certificate"),
    SetVar("acm_certificate_arn", "ssl_certificate_arn"),
    SetVar("minimum_protocol_version", "minimum_tls_version"),
    End,
    Block("restrictions"),
    Block("geo_restriction"),
    SetVar("restriction_type", "geo_restriction")>>
  \o (IF Len(GeoRestrictionIds(o)) > 0
      THEN <<SetVar("locations", "geo_restriction_ids")>>
      ELSE <<>>)
  \o <<End, End>>
  \o (IF o.loggingEnabled
      THEN <<Block("logging_config"),
             SetVar("bucket", "logging_s3_bucket"),
             SetVar("prefix", "logging_prefix"),
             End>>
      ELSE <<>>)
  \o (IF o.preventDestroy
      THEN <<Block("lifecycle"), SetVar("prevent_destroy", "prevent_destroy"), End>>
      ELSE <<>>)
  \o <<End>>

CloudFrontOutputsTF(o) ==
  <<Output("cloudfront_distribution_id", <<"aws_cloudfront_distribution.distribution">>),
    Output("cloudfront_distribution_domain_name", <<"aws_cloudfront_distribution.distribution">>),
    Output("cloudfront_distribution_arn", <<"aws_cloudfront_distribution.distribution">>)>>

CloudFrontVariablesFile == FileName("variables", "cloudfront", <<"3">>)
CloudFrontMainFile == FileName("main", "cloudfront", <<"3">>)
CloudFrontOutputsFile == FileName("outputs", "cloudfront", <<"3">>)

\* generateTerraformFiles
CloudFrontFiles(dir, o) ==
  WriteFiles(dir,
             <<CloudFrontVariablesFile, CloudFrontMainFile, CloudFrontOutputsFile>>,
             <<CloudFrontVariablesTF(o), CloudFrontMainTF(o), CloudFrontOutputsTF(o)>>)

CloudFrontBaseArgs ==
  [distributionName |-> <<"cdn">>, originDomainName |-> <<"origin.example.com">>,
   originId |-> <<"origin1">>, viewerProtocolPolicy |-> UNDEF,
   sslCertificateArn |-> UNDEF, loggingEnabled |-> FALSE, loggingS3Bucket |-> UNDEF,
   geoRestriction |-> UNDEF, geoRestrictionIds |-> UNDEF, preventDestroy |-> FALSE]

GeoIdRaws ==
  { UNDEF, <<>>, <<"us">>, <<"us", ",", " ", "ca">>, <<" ", "de", " ", ",", "us">>, <<",">> }

CloudFrontOptionArgs ==
  { [CloudFrontBaseArgs EXCEPT
       !.viewerProtocolPolicy = vpp, !.sslCertificateArn = arn,
       !.loggingEnabled = le, !.loggingS3Bucket = lb,
       !.geoRestriction = gr, !.geoRestrictionIds = ids, !.preventDestroy = pd] :
      vpp \in {UNDEF, <<"allow-all">>, <<"redirect-to-https">>, <<"https-only">>},
      arn \in {UNDEF, <<"arn:aws:acm:cert">>},
      le \in BOOLEAN, lb \in {UNDEF, <<"logs">>},
      gr \in {UNDEF, <<"none">>, <<"blacklist">>, <<"whitelist">>},
      ids \in GeoIdRaws, pd \in BOOLEAN }

CloudFrontRequiredArgs ==
  { [CloudFrontBaseArgs EXCEPT
       !.distributionName = dn, !.originDomainName = od, !.originId = oi,
       !.sslCertificateArn = <<"arn:aws:acm:cert">>] :
      dn \in {UNDEF, <<"cdn">>}, od \in {UNDEF, <<"origin.example.com">>},
      oi \in {UNDEF, <<"origin1">>} }

CloudFrontArgs == CloudFrontOptionArgs \cup CloudFrontRequiredArgs

\* one run of the script on an empty output directory
RunCloudFront(a) ==
  /\ gen = "none"
  /\ UNCHANGED <<asmVars, srvVars, cliVars>>
  /\ gen' = "cloudfront"
  /\ options' = CloudFrontOpts(a)
  /\ IF CloudFrontRequiredGiven(a) /\ CloudFrontValid(CloudFrontOpts(a))
     THEN exitCode' = 0 /\ outDir' = CloudFrontFiles(outDir, CloudFrontOpts(a))
     ELSE exitCode' = 1 /\ outDir' = outDir

(***************************************************************************)
(* generateEC2Terraform.ts                                                 *)
(***************************************************************************)
\* cond ? [line] : '' inside a lines.push: the line, or an empty line
When(cond, line) == IF cond THEN <<line>> ELSE <<>>

EC2VariablesTF(o) ==
  <<Variable("ami_id", <<"ami-011899242bb902164">>),
    Variable("instance_type", <<"t2.micro">>),
    VariableNoDefault("key_name"),
    Variable("instance_count", <<"1">>)>>
  \o (IF o.security
      THEN <<Variable("allowed_ssh_cidr", <<"0.0.0.0/0">>),
             Variable("allowed_http_cidr", <<"0.0.0.0/0">>)>>
      ELSE <<>>)
  \o (IF o.docker
      THEN <<VariableNoDefault("docker_image"),
             Variable("docker_container_name", <<"my_docker_container">>)>>
      ELSE <<>>)
  \o (IF o.vpc
      THEN <<Variable("vpc_cidr", <<"10.0.0.0/16">>),
             Variable("subnet_cidr", <<"10.0.1.0/24">>),
             Variable("availability_zone", <<"us-east-1a">>)>>
      ELSE <<>>)
  \o (IF o.loadBalancer
      THEN <<Variable("lb_name", <<"example-lb">>),
             Variable("lb_port", <<"80">>)>>
      ELSE <<>>)

EC2OutputsTF(o) ==
  <<Output("instance_ids", <<"aws_instance.ec2">>),
    Output("instance_public_ips", <<"aws_instance.ec2">>),
    Output("instance_public_dns", <<"aws_instance.ec2">>)>>
  \o (IF o.vpc
      THEN <<Output("vpc_id", <<"aws_vpc.main">>),
             Output("subnet_id", <<"aws_subnet.main">>)>>
      ELSE <<>>)
  \o (IF o.loadBalancer
      THEN <<Output("load_balancer_dns", <<"aws_lb.lb">>)>>
      ELSE <<>>)

\* the VPC, subnet, gateway, route table and association blocks
EC2VpcBlocks ==
  <<Resource("aws_vpc.main"),
    SetVar("cidr_block", "vpc_cidr"),
    Block("lifecycle"), End,
    End,
    Resource("aws_subnet.main"),
    SetRes("vpc_id", "aws_vpc.main"),
    SetVar("cidr_block", "subnet_cidr"),
    SetVar("availability_zone", "availability_zone"),
    DependsOn(<<"aws_vpc.main">>),
    End,
    Resource("aws_internet_gateway.igw"),
    SetRes("vpc_id", "aws_vpc.main"),
    DependsOn(<<"aws_vpc.main">>),
    End,
    Resource("aws_route_table.rt"),
    SetRes("vpc_id", "aws_vpc.main"),
    Block("route"),
    SetRes("gateway_id", "aws_internet_gateway.igw"),
    End,
    DependsOn(<<"aws_internet_gateway.igw">>),
    End,
    Resource("aws_route_table_association.rta"),
    SetRes("subnet_id", "aws_subnet.main"),
    SetRes("route_table_id", "aws_route_table.rt"),
    DependsOn(<<"aws_route_table.rt", "aws_subnet.main">>),
    End>>

\* the security group block
EC2SecurityBlocks(o) ==
  <<Resource("aws_security_group.sg")>>
  \o When(o.vpc, SetRes("vpc_id", "aws_vpc.main"))
  \o <<Block("ingress"), SetVar("cidr_blocks", "allowed_ssh_cidr"), End,
       Block("ingress"), SetVar("cidr_blocks", "allowed_http_cidr"), End,
       Block("egress"), End,
       Block("lifecycle"), End,
       End>>

\* the depends_on line of aws_instance.ec2
EC2InstanceDependsOn(o) ==
  IF o.vpc
  THEN DependsOn(<<"aws_subnet.main", "aws_security_group.sg">>)
  ELSE DependsOn(<<"aws_security_group.sg">>)

\* the aws_instance.ec2 block
EC2InstanceBlock(o) ==
  <<Resource("aws_instance.ec2"),
    SetVar("count", "instance_count"),
    SetVar("ami", "ami_id"),
    SetVar("instance_type", "instance_type")>>
  \o When(o.vpc, SetRes("subnet_id", "aws_subnet.main"))
  \o When(o.security, SetRes("vpc_security_group_ids", "aws_security_group.sg"))
  \o <<SetVar("key_name", "key_name"),
       Block("lifecycle"), End,
       EC2InstanceDependsOn(o)>>
  \o When(o.docker,
          Line("arg", "user_data", <<>>, <<>>,
               <<"docker_container_name", "docker_image">>, <<>>))
  \o <<End>>

\* the load balancer, target group, listener and attachment blocks
EC2LoadBalancerBlocks(o) ==
  <<Resource("aws_lb.lb"),
    SetVar("name", "lb_name")>>
  \o When(o.vpc, SetRes("subnets", "aws_subnet.main"))
  \o When(o.security, SetRes("security_groups", "aws_security_group.lb_sg"))
  \o <<SetVar("Name", "lb_name"),
       Block("lifecycle"), End,
       End,
       Resource("aws_lb_target_group.tg"),
       SetVar("name", "lb_name"),
       SetVar("port", "lb_port")>>
  \o When(o.vpc, SetRes("vpc_id", "aws_vpc.main"))
  \o <<DependsOn(<<"aws_lb.lb">>),
       End,
       Resource("aws_lb_listener.listener"),
       SetRes("load_balancer_arn", "aws_lb.lb"),
       SetVar("port", "lb_port"),
       Block("default_action"),
       SetRes("target_group_arn", "aws_lb_target_group.tg"),
       End,
       DependsOn(<<"aws_lb_target_group.tg">>),
       End,
       Resource("aws_lb_target_group_attachment.attachment"),
       SetVar("count", "instance_count"),
       SetRes("target_group_arn", "aws_lb_target_group.tg"),
       SetRes("target_id", "aws_instance.ec2"),
       SetVar("port", "lb_port"),
       DependsOn(<<"aws_lb_listener.listener", "aws_instance.ec2">>),
       End>>

EC2MainTF(o) ==
  (IF o.vpc THEN EC2VpcBlocks ELSE <<>>)
  \o (IF o.security THEN EC2SecurityBlocks(o) ELSE <<>>)
  \o EC2InstanceBlock(o)
  \o (IF o.loadBalancer THEN EC2LoadBalancerBlocks(o) ELSE <<>>)

EC2VariablesFile == FileName("variables", "ec2", <<"2">>)
EC2OutputsFile == FileName("outputs", "ec2", <<"2">>)
EC2MainFile == FileName("main", "ec2", <<"2">>)

\* generateTerraformFiles
EC2Files(dir, o) ==
  WriteFiles(dir,
             <<EC2VariablesFile, EC2OutputsFile, EC2MainFile>>,
             <<EC2VariablesTF(o), EC2OutputsTF(o), EC2MainTF(o)>>)

EC2Args ==
  [docker : BOOLEAN, security : BOOLEAN, vpc : BOOLEAN, loadBalancer : BOOLEAN]

\* one run of the script on an empty output directory: no option is rejected
RunEC2(a) ==
  /\ gen = "none"
  /\ UNCHANGED <<asmVars, srvVars, cliVars>>
  /\ gen' = "ec2"
  /\ options' = a
  /\ exitCode' = 0
  /\ outDir' = EC2Files(outDir, a)

(***************************************************************************)
(* generateS3Terraform.ts                                                  *)
(***************************************************************************)
\* program.opts(): --acl defaults to private
S3Opts(a) == [a EXCEPT !.acl = IF a.acl = UNDEF THEN <<"private">> ELSE a.acl]

S3VariablesTF(o) ==
  <<VariableNoDefault("s3_bucket_name"),
    Variable("s3_acl", Interp(o.acl))>>
  \o (IF o.versioning THEN <<Variable("enable_versioning", <<"true">>)>> ELSE <<>>)

S3OutputsTF(o) ==
  <<Output("s3_bucket_id", <<"aws_s3_bucket.bucket">>),
    Output("s3_bucket_arn", <<"aws_s3_bucket.bucket">>)>>

S3MainTF(o) ==
  <<Resource("aws_s3_bucket.bucket"),
    SetVar("bucket", "s3_bucket_name"),
    SetVar("acl", "s3_acl")>>
  \o (IF o.versioning
      THEN <<Block("versioning"), SetVar("enabled", "enable_versioning"), End>>
      ELSE <<>>)
  \o (IF o.lifecycle
      THEN <<Block("lifecycle_rule"),
             Block("transition"), End,
             Block("expiration"), End,
             Block("noncurrent_version_expiration"), End,
             End>>
      ELSE <<>>)
  \o <<End>>

S3VariablesFile == FileName("variables", "s3", <<"2">>)
S3OutputsFile == FileName("outputs", "s3", <<"2">>)
S3MainFile == FileName("main", "s3", <<"2">>)

\* generateTerraformFiles
S3Files(dir, o) ==
  WriteFiles(dir,
             <<S3VariablesFile, S3OutputsFile, S3MainFile>>,
             <<S3VariablesTF(o), S3OutputsTF(o), S3MainTF(o)>>)

S3Args ==
  [versioning : BOOLEAN, acl : {UNDEF, <<"public-read">>}, lifecycle : BOOLEAN]

\* one run of the script on an empty output directory: no option is rejected
RunS3(a) ==
  /\ gen = "none"
  /\ UNCHANGED <<asmVars, srvVars, cliVars>>
  /\ gen' = "s3"
  /\ options' = S3Opts(a)
  /\ exitCode' = 0
  /\ outDir' = S3Files(outDir, S3Opts(a))

(***************************************************************************)
(* generateLambdaTerraform.ts (the second script of generateS3Terraform.ts)*)
(***************************************************************************)
LambdaVariablesTF(o) ==
  <<Variable("lambda_function_name", <<"my_lambda_function">>),
    Variable("lambda_runtime", <<"nodejs18.x">>),
    Variable("lambda_handler", <<"index.handler">>),
    Variable("lambda_zip_file", <<"lambda_function_payload.zip">>),
    Variable("lambda_role_name", <<"lambda_execution_role">>)>>
  \o (IF o.apiGateway
      THEN <<Variable("api_gateway_name", <<"my_api_gateway">>),
             Variable("api_gateway_stage", <<"dev">>)>>
      ELSE <<>>)
  \o (IF o.vpc
      THEN <<VariableNoDefault("vpc_id"),
             VariableNoDefault("subnet_ids"),
             VariableNoDefault("security_group_ids")>>
      ELSE <<>>)
  \o (IF o.environment
      THEN <<Variable("environment_variables", <<"ENV", "=", "production">>)>>
      ELSE <<>>)
  \o (IF o.layers THEN <<Variable("lambda_layers", <<"[]">>)>> ELSE <<>>)
  \o (IF o.schedule
      THEN <<Variable("schedule_expression", <<"rate(5 minutes)">>)>>
      ELSE <<>>)

LambdaOutputsTF(o) ==
  <<Output("lambda_function_arn", <<"aws_lambda_function.lambda">>),
    Output("lambda_function_invoke_arn", <<"aws_lambda_function.lambda">>)>>
  \o (IF o.apiGateway
      THEN <<Output("api_gateway_invoke_url", <<"aws_api_gateway_stage.stage">>)>>
      ELSE <<>>)

\* the API Gateway blocks
LambdaApiGatewayBlocks ==
  <<Resource("aws_api_gateway_rest_api.api"),
    SetVar("name", "api_gateway_name"),
    End,
    Resource("aws_api_gateway_resource.resource"),
    SetRes("rest_api_id", "aws_api_gateway_rest_api.api"),
    SetRes("parent_id", "aws_api_gateway_rest_api.api"),
    End,
    Resource("aws_api_gateway_method.method"),
    SetRes("rest_api_id", "aws_api_gateway_rest_api.api"),
    SetRes("resource_id", "aws_api_gateway_resource.resource"),
    End,
    Resource("aws_api_gateway_integration.integration"),
    SetRes("rest_api_id", "aws_api_gateway_rest_api.api"),
    SetRes("resource_id", "aws_api_gateway_resource.resource"),
    SetRes("http_method", "aws_api_gateway_method.method"),
    SetRes("uri", "aws_lambda_function.lambda"),
    End,
    Resource("aws_api_gateway_stage.stage"),
    SetVar("stage_name", "api_gateway_stage"),
    SetRes("rest_api_id", "aws_api_gateway_rest_api.api"),
    SetRes("deployment_id", "aws_api_gateway_deployment.deployment"),
    End,
    Resource("aws_api_gateway_deployment.deployment"),
    DependsOn(<<"aws_api_gateway_integration.integration">>),
    SetRes("rest_api_id", "aws_api_gateway_rest_api.api"),
    SetVar("stage_name", "api_gateway_stage"),
    End,
    Resource("aws_lambda_permission.api_gateway"),
    SetRes("function_name", "aws_lambda_function.lambda"),
    SetRes("source_arn", "aws_api_gateway_rest_api.api"),
    End>>

\* the CloudWatch schedule blocks
LambdaScheduleBlocks ==
  <<Resource("aws_cloudwatch_event_rule.schedule"),
    SetVar("name", "lambda_function_name"),
    SetVar("schedule_expression", "schedule_expression"),
    End,
    Resource("aws_cloudwatch_event_target.target"),
    SetRes("rule", "aws_cloudwatch_event_rule.schedule"),
    SetRes("arn", "aws_lambda_function.lambda"),
    End,
    Resource("aws_lambda_permission.cloudwatch"),
    SetRes("function_name", "aws_lambda_function.lambda"),
    SetRes("source_arn", "aws_cloudwatch_event_rule.schedule"),
    End>>

LambdaMainTF(o) ==
  <<Resource("aws_iam_role.lambda_role"),
    SetVar("name", "lambda_role_name"),
    SetVar("Name", "lambda_role_name"),
    End,
    Resource("aws_iam_role_policy_attachment.lambda_policy_attachment"),
    SetRes("role", "aws_iam_role.lambda_role"),
    End>>
  \o (IF o.vpc
      THEN <<Resource("aws_iam_role_policy_attachment.lambda_vpc_policy_attachment"),
             SetRes("role", "aws_iam_role.lambda_role"),
             End>>
      ELSE <<>>)
  \o <<Resource("aws_lambda_function.lambda"),
       SetVar("function_name", "lambda_function_name"),
       SetRes("role", "aws_iam_role.lambda_role"),
       SetVar("handler", "lambda_handler"),
       SetVar("runtime", "lambda_runtime"),
       SetVar("filename", "lambda_zip_file"),
       SetVar("source_code_hash", "lambda_zip_file")>>
  \o (IF o.environment
      THEN <<Block("environment"), SetVar("variables", "environment_variables"), End>>
      ELSE <<>>)
  \o (IF o.layers THEN <<SetVar("layers", "lambda_layers")>> ELSE <<>>)
  \o (IF o.vpc
      THEN <<Block("vpc_config"),
             SetVar("subnet_ids", "subnet_ids"),
             SetVar("security_group_ids", "security_group_ids"),
             End>>
      ELSE <<>>)
  \o <<SetVar("Name", "lambda_function_name"),
       End>>
  \o (IF o.apiGateway THEN LambdaApiGatewayBlocks ELSE <<>>)
  \o (IF o.schedule THEN LambdaScheduleBlocks ELSE <<>>)

LambdaProvidersTF == <<Line("provider", "aws", <<"region">>, <<(<<"us-east-1">>)>>, <<>>, <<>>)>>

LambdaProvidersFile == <<"providers", "_", "lambda", ".tf">>
LambdaVariablesFile == <<"variables", "_", "lambda", ".tf">>
LambdaOutputsFile == <<"outputs", "_", "lambda", ".tf">>
LambdaMainFile == <<"main", "_", "lambda", ".tf">>

\* generateTerraformFiles
LambdaFiles(dir, o) ==
  WriteFiles(dir,
             <<LambdaProvidersFile, LambdaVariablesFile, LambdaOutputsFile, LambdaMainFile>>,
             <<LambdaProvidersTF, LambdaVariablesTF(o), LambdaOutputsTF(o), LambdaMainTF(o)>>)

LambdaArgs ==
  [apiGateway : BOOLEAN, vpc : BOOLEAN, environment : BOOLEAN, layers : BOOLEAN,
   schedule : BOOLEAN]

\* one run of the script on an empty output directory: no option is rejected
RunLambda(a) ==
  /\ gen = "none"
  /\ UNCHANGED <<asmVars, srvVars, cliVars>>
  /\ gen' = "lambda"
  /\ options' = a
  /\ exitCode' = 0
  /\ outDir' = LambdaFiles(outDir, a)

(***************************************************************************)
(* generateIAMTerraform.ts                                                 *)
(***************************************************************************)
IAMVariablesTF(o) ==
  (IF Truthy(o.role) THEN <<Variable("role_name", Interp(o.role))>> ELSE <<>>)
  \o (IF Truthy(o.policy)
      THEN <<Variable("policy_name", Interp(o.policy)),
             Variable("policy_document", Interp(o.policyJson))>>
      ELSE <<>>)
  \o (IF Truthy(o.user) THEN <<Variable("user_name", Interp(o.user))>> ELSE <<>>)

IAMOutputsTF(o) ==
  (IF Truthy(o.role) THEN <<Output("role_arn", <<"aws_iam_role.role">>)>> ELSE <<>>)
  \o (IF Truthy(o.policy) THEN <<Output("policy_arn", <<"aws_iam_policy.policy">>)>> ELSE <<>>)
  \o (IF Truthy(o.user) THEN <<Output("user_arn", <<"aws_iam_user.user">>)>> ELSE <<>>)

\* the role-policy attachment block without its depends_on line
IAMRoleAttachmentUnordered ==
  <<Resource("aws_iam_role_policy_attachment.role_policy_attachment"),
    SetRes("role", "aws_iam_role.role"),
    SetRes("policy_arn", "aws_iam_policy.policy"),
    End>>

\* the role-policy attachment block
IAMRoleAttachment ==
  <<Resource("aws_iam_role_policy_attachment.role_policy_attachment"),
    SetRes("role", "aws_iam_role.role"),
    SetRes("policy_arn", "aws_iam_policy.policy"),
    DependsOn(<<"aws_iam_role.role", "aws_iam_policy.policy">>),
    End>>

\* the user-policy attachment block
IAMUserAttachment ==
  <<Resource("aws_iam_user_policy_attachment.user_policy_attachment"),
    SetRes("user", "aws_iam_user.user"),
    SetRes("policy_arn", "aws_iam_policy.policy"),
    DependsOn(<<"aws_iam_user.user", "aws_iam_policy.policy">>),
    End>>

IAMMainTF(o) ==
  (IF Truthy(o.role)
   THEN <<Resource("aws_iam_role.role"), SetVar("name", "role_name"), End>>
   ELSE <<>>)
  \o (IF Truthy(o.policy)
      THEN <<Resource("aws_iam_policy.policy"),
             SetVar("name", "policy_name"),
             SetVar("policy", "policy_document"),
             End>>
      ELSE <<>>)
  \o (IF Truthy(o.user)
      THEN <<Resource("aws_iam_user.user"), SetVar("name", "user_name"), End>>
      ELSE <<>>)
  \o (IF Truthy(o.attachPolicyRole) /\ Truthy(o.policy) /\ Truthy(o.role)
      THEN IAMRoleAttachment
      ELSE <<>>)
  \o (IF Truthy(o.attachPolicyUser) /\ Truthy(o.policy) /\ Truthy(o.user)
      THEN IAMUserAttachment
      ELSE <<>>)

IAMVariablesFile == FileName("variables", "iam", <<"1">>)
IAMOutputsFile == FileName("outputs", "iam", <<"1">>)
IAMMainFile == FileName("main", "iam", <<"1">>)

\* generateTerraformFiles
IAMFiles(dir, o) ==
  WriteFiles(dir,
             <<IAMVariablesFile, IAMOutputsFile, IAMMainFile>>,
             <<IAMVariablesTF(o), IAMOutputsTF(o), IAMMainTF(o)>>)

IAMArgs ==
  [role : {UNDEF, <<"app-role">>}, policy : {UNDEF, <<"app-policy">>},
   policyJson : {UNDEF, <<"policy.json">>}, user : {UNDEF, <<"app-user">>},
   attachPolicyRole : {UNDEF, <<"app-role">>}, attachPolicyUser : {UNDEF, <<"app-user">>}]

\* one run of the script on an empty output directory: no option is rejected
RunIAM(a) ==
  /\ gen = "none"
  /\ UNCHANGED <<asmVars, srvVars, cliVars>>
  /\ gen' = "iam"
  /\ options' = a
  /\ exitCode' = 0
  /\ outDir' = IAMFiles(outDir, a)

(***************************************************************************)
(* generateRoute53Terraform.ts                                             *)
(***************************************************************************)
\* program.opts(): --hosted-zone-type defaults to PUBLIC
Route53Opts(a) ==
  [a EXCEPT !.hostedZoneType =
     IF a.hostedZoneType = UNDEF THEN <<"PUBLIC">> ELSE a.hostedZoneType]

Route53RequiredGiven(a) == a.hostedZone # UNDEF

\* the zone is private
Route53Private(o) == ToUpperCase(o.hostedZoneType) = <<"PRIVATE">>

\* the validation before the output directory is made
Route53Valid(o) == ~(Route53Private(o) /\ ~Truthy(o.vpcId))

\* the callback of records.map: ok is FALSE where it calls process.exit(1)
ParseDNSRecord(record) ==
  LET parts == Split(record, ":")
      ttl == ParseInt(At(parts, 3))
  IN IF Len(parts) < 4
     THEN [ok |-> FALSE, type |-> <<>>, name |-> <<>>, value |-> <<>>, ttl |-> NaN]
     ELSE IF ttl.nan
     THEN [ok |-> FALSE, type |-> <<>>, name |-> <<>>, value |-> <<>>, ttl |-> NaN]
     ELSE [ok |-> TRUE, type |-> ToUpperCase(parts[1]), name |-> parts[2],
           value |-> parts[3], ttl |-> ttl]

\* what the callback of records.map prints with console.error for a record
\* it exits on
DNSRecordError(record) ==
  LET parts == Split(record, ":")
  IN IF Len(parts) < 4
     THEN <<"Error: Invalid record format \"">> \o record
          \o <<"\". Expected format: type:name:value:ttl">>
     ELSE IF ParseInt(At(parts, 3)).nan
     THEN <<"Error: Invalid TTL value \"">> \o Interp(At(parts, 3))
          \o <<"\" in record \"">> \o record \o <<"\".">>
     ELSE <<>>

\* parseDNSRecords
ParseDNSRecords(records) == [i \in 1..Len(records) |-> ParseDNSRecord(records[i])]

\* parseDNSRecords returns: no record made it exit
DNSRecordsParsed(records) ==
  \A i \in 1..Len(records) : ParseDNSRecord(records[i]).ok

\* one entry of the dns_records default list
Route53RecordEntry(r) ==
  Line("entry", "dns_records", <<"type", "name", "value", "ttl">>,
       <<r.type, r.name, r.value, NumStr(r.ttl)>>, <<>>, <<>>)

Route53VariablesTF(o, dnsRecords) ==
  <<Variable("hosted_zone_name", Interp(o.hostedZone)),
    Variable("hosted_zone_type", ToUpperCase(o.hostedZoneType))>>
  \o (IF Route53Private(o) THEN <<Variable("vpc_id", Interp(o.vpcId))>> ELSE <<>>)
  \o (IF Len(dnsRecords) > 0
      THEN <<VariableNoDefault("dns_records")>>
           \o [i \in 1..Len(dnsRecords) |-> Route53RecordEntry(dnsRecords[i])]
           \o <<End>>
      ELSE <<>>)
  \o (IF o.preventDestroy THEN <<Variable("prevent_destroy", <<"true">>)>> ELSE <<>>)

\* an address numbered from 0
RecordAddressFromZero(index) == "aws_route53_record.record_" \o ToString(index)

\* `record_${index + 1}` as a resource address
RecordAddress(index) == "aws_route53_record.record_" \o ToString(index + 1)

\* <n> = var.dns_records[<index>].<n>
SetFromRecord(n, index) ==
  Line("arg", n, <<"index">>, <<(<<ToString(index)>>)>>, <<"dns_records">>, <<>>)

\* the resource block of the record at (0-based) index
Route53RecordBlock(index) ==
  <<Resource(RecordAddress(index)),
    SetRes("zone_id", "aws_route53_zone.hosted_zone"),
    SetFromRecord("name", index),
    SetFromRecord("type", index),
    SetFromRecord("ttl", index),
    SetFromRecord("records", index),
    DependsOn(<<"aws_route53_zone.hosted_zone">>),
    End>>

RECURSIVE Route53RecordBlocks(_, _)
Route53RecordBlocks(index, n) ==
  IF index >= n THEN <<>>
  ELSE Route53RecordBlock(index) \o Route53RecordBlocks(index + 1, n)

Route53MainTF(o, dnsRecords) ==
  <<Resource("aws_route53_zone.hosted_zone"),
    SetVar("name", "hosted_zone_name"),
    SetVar("type", "hosted_zone_type")>>
  \o (IF Route53Private(o)
      THEN <<Block("vpc"), SetVar("vpc_id", "vpc_id"), End>>
      ELSE <<>>)
  \o (IF o.preventDestroy
      THEN <<Block("lifecycle"), SetVar("prevent_destroy", "prevent_destroy"), End>>
      ELSE <<>>)
  \o <<End>>
  \o (IF Len(dnsRecords) > 0 THEN Route53RecordBlocks(0, Len(dnsRecords)) ELSE <<>>)

Route53OutputsTF(o, dnsRecords) ==
  <<Output("hosted_zone_id", <<"aws_route53_zone.hosted_zone">>),
    Output("hosted_zone_name_servers", <<"aws_route53_zone.hosted_zone">>)>>
  \o (IF Len(dnsRecords) > 0
      THEN <<Output("dns_record_ids",
                    [i \in 1..Len(dnsRecords) |-> RecordAddress(i - 1)])>>
      ELSE <<>>)

Route53VariablesFile == FileName("variables", "route53", <<"3">>)
Route53MainFile == FileName("main", "route53", <<"3">>)
Route53OutputsFile == FileName("outputs", "route53", <<"3">>)

\* generateTerraformFiles
Route53Files(dir, o) ==
  LET dnsRecords == ParseDNSRecords(o.record)
  IN WriteFiles(dir,
                <<Route53VariablesFile, Route53MainFile, Route53OutputsFile>>,
                <<Route53VariablesTF(o, dnsRecords), Route53MainTF(o, dnsRecords),
                  Route53OutputsTF(o, dnsRecords)>>)

RecordRaws ==
  { <<"a", ":", "www", ":", "1.2.3.4", ":", "3", "0", "0">>,
    <<"cname", ":", "api", ":", "host", ":", "6", "0", "s">>,
    <<"mx", ":", "mail", ":", "mx1", ":", "1", "0", ":", "pri">>,
    <<"a", ":", "www", ":", "1.2.3.4">>,
    <<"a", ":", "www", ":", "1.2.3.4", ":", "ttl">> }

Route53Args ==
  [hostedZone : {UNDEF, <<"example.com">>},
   hostedZoneType : {UNDEF, <<"PRIVATE">>, <<"private">>},
   vpcId : {UNDEF, <<"vpc-1">>},
   record : SeqsUpTo(RecordRaws, MaxRecs),
   preventDestroy : BOOLEAN]

\* one run of the script on an empty output directory
RunRoute53(a) ==
  /\ gen = "none"
  /\ UNCHANGED <<asmVars, srvVars, cliVars>>
  /\ gen' = "route53"
  /\ options' = Route53Opts(a)
  /\ IF /\ Route53RequiredGiven(a)
        /\ Route53Valid(Route53Opts(a))
        /\ DNSRecordsParsed(a.record)
     THEN exitCode' = 0 /\ outDir' = Route53Files(outDir, Route53Opts(a))
     ELSE exitCode' = 1 /\ outDir' = outDir

\* what a run that is given its required option prints with console.error:
\* the zone check exits first, then the first record that does not parse
Route53Stderr(o) ==
  IF ~Route53Valid(o)
  THEN <<"Error: --vpc-id is required when hosted zone type is PRIVATE.">>
  ELSE LET bad == { i \in 1..Len(o.record) : ~ParseDNSRecord(o.record[i]).ok }
       IN IF bad = {} THEN <<>>
          ELSE DNSRecordError(o.record[CHOOSE i \in bad : \A j \in bad : i <= j])

(***************************************************************************)
(* watcher.ts: the watcher and regenerateTargetFiles                       *)
(***************************************************************************)
FILE_EXTENSION == ".tf"

\* path.extname(filePath).toLowerCase(): the extension is the last token
ExtTokens == {".tf", ".TF", ".txt"}

LowerExt(e) == IF e = ".TF" THEN ".tf" ELSE e

ExtNameLower(f) ==
  IF f # <<>> /\ f[Len(f)] \in ExtTokens THEN LowerExt(f[Len(f)]) ELSE ""

\* path.basename(filePath, FILE_EXTENSION): the name without a trailing ".tf"
BaseName(f) ==
  IF Len(f) > 1 /\ f[Len(f)] = FILE_EXTENSION THEN SubSeq(f, 1, Len(f) - 1) ELSE f

\* the prefix of a file: the part of the base name before the first underscore
Prefix(f) == Split(BaseName(f), "_")[1]

\* aNum / bNum of the comparator: parseInt(last part, 10) || 0
LastNumber(f) ==
  LET parts == Split(BaseName(f), "_")
      r == ParseInt(parts[Len(parts)])
  IN IF r.nan \/ r.n = 0 THEN 0 ELSE r.n

\* a comparator that orders by descending number
CompareDescending(a, b) == LastNumber(b) - LastNumber(a)

\* the comparator of files.sort
Compare(a, b) == LastNumber(a) - LastNumber(b)

\* Array.prototype.sort with a comparator is stable: x goes after every
\* element it does not compare below
RECURSIVE InsertSorted(_, _)
InsertSorted(sorted, x) ==
  IF sorted = <<>> THEN <<x>>
  ELSE IF Compare(x, Head(sorted)) < 0 THEN <<x>> \o sorted
  ELSE <<Head(sorted)>> \o InsertSorted(Tail(sorted), x)

RECURSIVE SortFiles(_)
SortFiles(files) ==
  IF files = <<>> THEN <<>>
  ELSE InsertSorted(SortFiles(SubSeq(files, 1, Len(files) - 1)), files[Len(files)])

\* groupedFiles after file is pushed: groups in the order their prefix first came
RECURSIVE PushGrouped(_, _)
PushGrouped(groups, file) ==
  IF groups = <<>> THEN <<[prefix |-> Prefix(file), files |-> <<file>>]>>
  ELSE IF Head(groups).prefix = Prefix(file)
  THEN <<[Head(groups) EXCEPT !.files = Append(@, file)]>> \o Tail(groups)
  ELSE <<Head(groups)>> \o PushGrouped(Tail(groups), file)

\* groupedFiles: processedFiles.forEach in insertion order
RECURSIVE GroupFiles(_)
GroupFiles(processed) ==
  IF processed = <<>> THEN <<>>
  ELSE PushGrouped(GroupFiles(SubSeq(processed, 1, Len(processed) - 1)),
                   processed[Len(processed)])

\* targetFilePath of a group
TargetFile(prefix) == prefix \o <<FILE_EXTENSION>>

\* a section that leaves the data out
SectionWithoutData(file, data) == [from |-> file, data |-> <<>>]

\* contentToAppend: the separator naming path.basename(filePath), then the data
Section(file, data) == [from |-> file, data |-> data]

\* processedFiles.add(filePath)
SetAdd(processed, f) ==
  IF f \in Range(processed) THEN processed ELSE Append(processed, f)

RECURSIVE SetAddAll(_, _)
SetAddAll(processed, files) ==
  IF files = <<>> THEN processed
  ELSE SetAddAll(SetAdd(processed, Head(files)), Tail(files))

\* a call of regenerateTargetFiles up to its first await: the files are
\* grouped, the first group is sorted and its target is about to be cleared
\* (merged records the output folder as the call leaves it when it returns,
\* caught the prefixes of the groups whose error the catch has logged)
NewPass(processed) ==
  LET groups == GroupFiles(processed)
  IN IF groups = <<>>
     THEN [groups |-> groups, g |-> 1, sorted |-> <<>>, i |-> 0, pc |-> "done",
           data |-> <<>>, merged |-> outputFolder, caught |-> <<>>]
     ELSE [groups |-> groups, g |-> 1, sorted |-> SortFiles(groups[1].files), i |-> 0,
           pc |-> "clear", data |-> <<>>, merged |-> EmptyDir, caught |-> <<>>]

\* the pass goes on to its next group, or returns after the last
NextGroup(p, out) ==
  IF p.g < Len(p.groups)
  THEN [p EXCEPT !.g = @ + 1, !.sorted = SortFiles(p.groups[p.g + 1].files), !.i = 0,
                 !.pc = "clear", !.data = <<>>]
  ELSE [p EXCEPT !.pc = "done", !.data = <<>>, !.merged = out]

InFlight == { k \in 1..Len(passes) : passes[k].pc # "done" }

\* the files the model puts into the watch folder
StagedNames ==
  { <<"main", "_", "iam", "_", "1", ".tf">>,
    <<"main", "_", "ec2", "_", "2", ".tf">>,
    <<"main", "_", "s3", "_", "2", ".tf">>,
    <<"main", "_", "x", "_", "1", "0", ".tf">>,
    <<"main", "_", "lambda", ".tf">>,
    <<"variables", "_", "s3", "_", "2", ".tf">>,
    <<"notes", ".txt">> }

\* the files of the runs in which passes interleave
RacingNames ==
  { <<"main", "_", "iam", "_", "1", ".tf">>,
    <<"main", "_", "ec2", "_", "2", ".tf">>,
    <<"variables", "_", "s3", "_", "2", ".tf">> }

\* what a generator writes into file f
ContentOf(f) == <<"content of">> \o f

\* a file is written into the watch folder
DropFile(f) ==
  /\ f \notin DOMAIN watchDir
  /\ Cardinality(DOMAIN watchDir) < MaxFiles
  /\ watchDir' = (f :> ContentOf(f)) @@ watchDir
  /\ UNCHANGED <<outputFolder, processedFiles, announced, startup, passes>>
  /\ UNCHANGED <<genVars, srvVars, cliVars>>

\* what a later generator run with other options writes into file f
NewContentOf(f) == <<"new content of">> \o f

\* a file of the watch folder is written again with new content: chokidar
\* reports a change, for which the watcher has no handler
OverwriteFile(f) ==
  /\ f \in DOMAIN watchDir
  /\ watchDir[f] = ContentOf(f)
  /\ watchDir' = [watchDir EXCEPT ![f] = NewContentOf(f)]
  /\ UNCHANGED <<outputFolder, processedFiles, announced, startup, passes>>
  /\ UNCHANGED <<genVars, srvVars, cliVars>>

\* a file of the watch folder is deleted: the watcher has no handler for it,
\* and the file stays in processedFiles
UnlinkFile(f) ==
  /\ f \in DOMAIN watchDir
  /\ watchDir' = [g \in DOMAIN watchDir \ {f} |-> watchDir[g]]
  /\ UNCHANGED <<outputFolder, processedFiles, announced, startup, passes>>
  /\ UNCHANGED <<genVars, srvVars, cliVars>>

\* watcher.on('add'): the handler up to the first await of the pass it starts
WatcherAdd(f) ==
  /\ f \in DOMAIN watchDir
  /\ f \notin announced
  /\ announced' = announced \cup {f}
  /\ IF ExtNameLower(f) # FILE_EXTENSION \/ f \in Range(processedFiles)
     THEN UNCHANGED <<processedFiles, passes>>
     ELSE /\ processedFiles' = Append(processedFiles, f)
          /\ passes' = Append(passes, NewPass(Append(processedFiles, f)))
  /\ UNCHANGED <<watchDir, outputFolder, startup>>
  /\ UNCHANGED <<genVars, srvVars, cliVars>>

\* the orders in which readdir may list the files
RECURSIVE Listings(_)
Listings(files) ==
  IF files = {} THEN { <<>> }
  ELSE UNION { { <<f>> \o l : l \in Listings(files \ {f}) } : f \in files }

\* the initial regeneration resumes after readdir: every .tf file of the
\* listing is added, and a pass starts
InitialRegeneration ==
  /\ startup = "readdir"
  /\ startup' = "done"
  /\ \E listing \in Listings(DOMAIN watchDir) :
       LET tf == SelectSeq(listing, LAMBDA f : ExtNameLower(f) = FILE_EXTENSION)
       IN /\ processedFiles' = SetAddAll(processedFiles, tf)
          /\ passes' = Append(passes, NewPass(SetAddAll(processedFiles, tf)))
  /\ UNCHANGED <<watchDir, outputFolder, announced>>
  /\ UNCHANGED <<genVars, srvVars, cliVars>>

\* a clear that leaves an existing target as it is
PassClearKeeps(k) ==
  /\ k \in 1..Len(passes)
  /\ passes[k].pc = "clear"
  /\ LET p == passes[k]
         target == TargetFile(p.groups[p.g].prefix)
     IN /\ outputFolder' =
             IF target \in DOMAIN outputFolder THEN outputFolder
             ELSE (target :> <<>>) @@ outputFolder
        /\ passes' = [passes EXCEPT ![k] = [p EXCEPT !.pc = "read", !.i = 1]]
  /\ UNCHANGED <<watchDir, processedFiles, announced, startup>>
  /\ UNCHANGED <<genVars, srvVars, cliVars>>

\* await fs.promises.writeFile(targetFilePath, '')
PassClear(k) ==
  /\ k \in 1..Len(passes)
  /\ passes[k].pc = "clear"
  /\ LET p == passes[k]
         target == TargetFile(p.groups[p.g].prefix)
     IN /\ outputFolder' = (target :> <<>>) @@ outputFolder
        /\ passes' = [passes EXCEPT ![k] = [p EXCEPT !.pc = "read", !.i = 1]]
  /\ UNCHANGED <<watchDir, processedFiles, announced, startup>>
  /\ UNCHANGED <<genVars, srvVars, cliVars>>

\* await fs.promises.readFile(filePath, 'utf8'); a failure is caught and
\* logged, and the pass goes on to the next group
PassRead(k) ==
  /\ k \in 1..Len(passes)
  /\ passes[k].pc = "read"
  /\ LET p == passes[k]
         file == p.sorted[p.i]
     IN passes' = [passes EXCEPT ![k] =
          IF file \in DOMAIN watchDir
          THEN [p EXCEPT !.pc = "append", !.data = watchDir[file]]
          ELSE NextGroup([p EXCEPT !.caught = Append(@, p.groups[p.g].prefix)],
                         outputFolder)]
  /\ UNCHANGED <<watchDir, outputFolder, processedFiles, announced, startup>>
  /\ UNCHANGED <<genVars, srvVars, cliVars>>

\* await fs.promises.appendFile(targetFilePath, contentToAppend)
PassAppend(k) ==
  /\ k \in 1..Len(passes)
  /\ passes[k].pc = "append"
  /\ LET p == passes[k]
         target == TargetFile(p.groups[p.g].prefix)
         old == IF target \in DOMAIN outputFolder THEN outputFolder[target] ELSE <<>>
     IN /\ outputFolder' =
             (target :> Append(old, Section(p.sorted[p.i], p.data))) @@ outputFolder
        /\ passes' = [passes EXCEPT ![k] =
             IF p.i < Len(p.sorted)
             THEN [p EXCEPT !.pc = "read", !.i = @ + 1, !.data = <<>>]
             ELSE NextGroup(p, outputFolder')]
  /\ UNCHANGED <<watchDir, processedFiles, announced, startup>>
  /\ UNCHANGED <<genVars, srvVars, cliVars>>

PassStep == \E k \in 1..Len(passes) : PassClear(k) \/ PassRead(k) \/ PassAppend(k)

\* the discovery orders of the files of processed
Orders(processed) == Listings(Range(processed))

\* the documents a call of regenerateTargetFiles that runs alone leaves, by
\* target, when the files were discovered in the order processed
MergedFrom(processed, dir) ==
  LET groups == GroupFiles(processed)
  IN [t \in { TargetFile(groups[g].prefix) : g \in 1..Len(groups) } |->
        LET g == CHOOSE h \in 1..Len(groups) : TargetFile(groups[h].prefix) = t
            sorted == SortFiles(groups[g].files)
        IN [i \in 1..Len(sorted) |-> Section(sorted[i], dir[sorted[i]])]]

(***************************************************************************)
(* generateTerraform.ts: the provider generator                            *)
(***************************************************************************)
\* Object.keys(providerConfigs)
ValidProviders == { <<"aws">>, <<"gcp">>, <<"azure">> }

\* invalidProviders.length = 0, for the one provider the server passes
ProviderValid(provider) == provider \in ValidProviders

\* versions.tf, provider.tf and variables.tf, in the order they are written;
\* every provider configuration has variables
ProviderFileNames ==
  << <<"versions", ".tf">>, <<"provider", ".tf">>, <<"variables", ".tf">> >>

\* p.toLowerCase(), on the provider names the model passes
ProviderLower(provider) ==
  IF provider = <<"AWS">> THEN <<"aws">> ELSE provider

\* providerConfigs[p]: the provider's name, the variables its configuration
\* block references and the variables it declares, with their defaults
ProviderConfig(p) ==
  CASE p = <<"aws">> ->
         [name |-> "aws", refs |-> <<"aws_region">>,
          variables |-> <<Variable("aws_region", <<"us-west-2">>),
                          Variable("aws_profile", <<"default">>)>>]
    [] p = <<"gcp">> ->
         [name |-> "google", refs |-> <<"gcp_project", "gcp_region">>,
          variables |-> <<Variable("gcp_project", <<"my-gcp-project">>),
                          Variable("gcp_region", <<"us-central1">>)>>]
    [] p = <<"azure">> ->
         [name |-> "azurerm", refs |-> <<>>,
          variables |-> <<Variable("azure_location", <<"East US">>)>>]

\* generateVersionsTF: one entry of required_providers per provider
RECURSIVE GenerateVersionsTF(_)
GenerateVersionsTF(providers) ==
  IF providers = <<>> THEN <<>>
  ELSE <<Block(ProviderConfig(Head(providers)).name), End>>
       \o GenerateVersionsTF(Tail(providers))

\* generateProviderTF: the configuration blocks
RECURSIVE GenerateProviderTF(_)
GenerateProviderTF(providers) ==
  IF providers = <<>> THEN <<>>
  ELSE LET c == ProviderConfig(Head(providers))
       IN <<Block(c.name)>>
          \o [i \in 1..Len(c.refs) |-> SetVar(c.refs[i], c.refs[i])]
          \o <<End>> \o GenerateProviderTF(Tail(providers))

\* generateVariablesTF of the provider generator
RECURSIVE GenerateProviderVariablesTF(_)
GenerateProviderVariablesTF(providers) ==
  IF providers = <<>> THEN <<>>
  ELSE ProviderConfig(Head(providers)).variables
       \o GenerateProviderVariablesTF(Tail(providers))

\* main(): versions.tf and provider.tf are written, and variables.tf when
\* its content is not empty
ProviderFiles(dir, providers) ==
  IF GenerateProviderVariablesTF(providers) = <<>>
  THEN WriteFiles(dir, SubSeq(ProviderFileNames, 1, 2),
                  <<GenerateVersionsTF(providers), GenerateProviderTF(providers)>>)
  ELSE WriteFiles(dir, ProviderFileNames,
                  <<GenerateVersionsTF(providers), GenerateProviderTF(providers),
                    GenerateProviderVariablesTF(providers)>>)

\* the -p lists the model runs the script with
ProviderArgs ==
  { <<>>, << <<"aws">> >>, << <<"AWS">> >>, << <<"gcp">> >>, << <<"azure">> >>,
    << <<"bogus">> >>, << <<"aws">>, <<"gcp">> >>, << <<"aws">>, <<"bogus">> >> }

\* a run that writes the files of the valid providers before it rejects the
\* invalid ones
RunProviderWritesFirst(a) ==
  /\ gen = "none"
  /\ UNCHANGED <<asmVars, srvVars, cliVars>>
  /\ gen' = "provider"
  /\ options' = [providers |-> a]
  /\ LET selectedProviders == [i \in 1..Len(a) |-> ProviderLower(a[i])]
         valid == SelectSeq(selectedProviders, ProviderValid)
     IN /\ outDir' = ProviderFiles(outDir, valid)
        /\ exitCode' = IF a # <<>> /\ valid = selectedProviders THEN 0 ELSE 1

\* one run of the script: -p is required, and every provider must be valid
RunProvider(a) ==
  /\ gen = "none"
  /\ UNCHANGED <<asmVars, srvVars, cliVars>>
  /\ gen' = "provider"
  /\ options' = [providers |-> a]
  /\ LET selectedProviders == [i \in 1..Len(a) |-> ProviderLower(a[i])]
     IN IF a # <<>> /\ \A i \in 1..Len(a) : ProviderValid(selectedProviders[i])
        THEN exitCode' = 0 /\ outDir' = ProviderFiles(outDir, selectedProviders)
        ELSE exitCode' = 1 /\ outDir' = outDir

(***************************************************************************)
(* The server: POST /generate-files                                        *)
(***************************************************************************)
\* the files a generator run writes into the watch folder
StageFiles(dir, names) ==
  [f \in DOMAIN dir \cup Range(names) |->
     IF f \in Range(names) THEN ContentOf(f) ELSE dir[f]]

\* bun run module/aws/generate<name>Terraform.ts <args> -o <watchDir>: whether
\* the command resolves, and the files the script writes
ModuleRun(module) ==
  CASE module.name = "S3" ->
         [ok |-> TRUE, names |-> <<S3VariablesFile, S3OutputsFile, S3MainFile>>]
    [] module.name = "IAM" ->
         [ok |-> TRUE, names |-> <<IAMVariablesFile, IAMOutputsFile, IAMMainFile>>]
    [] module.name = "DynamoDB" ->
         IF DynamoRequiredGiven(module.args) /\ DynamoValid(DynamoOpts(module.args))
         THEN [ok |-> TRUE,
               names |-> <<DynamoVariablesFile, DynamoMainFile, DynamoOutputsFile>>]
         ELSE [ok |-> FALSE, names |-> <<>>]
    [] OTHER -> [ok |-> FALSE, names |-> <<>>]

\* the modules of the requests the model sends
BatchModules ==
  { [name |-> "S3", args |-> [versioning |-> FALSE, acl |-> UNDEF, lifecycle |-> FALSE]],
    [name |-> "IAM",
     args |-> [role |-> <<"app-role">>, policy |-> UNDEF, policyJson |-> UNDEF,
               user |-> UNDEF, attachPolicyRole |-> UNDEF, attachPolicyUser |-> UNDEF]],
    [name |-> "DynamoDB", args |-> [DynamoBaseArgs EXCEPT !.hashKeyType = UNDEF]] }

\* the request bodies the model sends
BatchBodies ==
  [provider : { <<"aws">>, <<"bogus">> }, module : SeqsUpTo(BatchModules, MaxModules)]

Running == request.pc \in {"provider", "module"}

\* a request comes in: the handler runs up to its first await
PostGenerateFiles(body) ==
  /\ request.pc = "idle"
  /\ request' = [pc |-> "provider", body |-> body, next |-> 0]
  /\ UNCHANGED asmVars
  /\ UNCHANGED <<genVars, cliVars>>

\* await executeCommand(`bun run ./generateTerraform.ts -p ... -o ...`): the
\* child process has ended, and the handler goes on to the modules, answers,
\* or lands in its catch
ProviderDone ==
  /\ request.pc = "provider"
  /\ IF ProviderValid(request.body.provider)
     THEN /\ watchDir' = StageFiles(watchDir, ProviderFileNames)
          /\ request' = IF request.body.module = <<>>
                        THEN [request EXCEPT !.pc = "ok"]
                        ELSE [request EXCEPT !.pc = "module", !.next = 1]
     ELSE /\ watchDir' = watchDir
          /\ request' = [request EXCEPT !.pc = "error"]
  /\ UNCHANGED <<outputFolder, processedFiles, announced, startup, passes>>
  /\ UNCHANGED <<genVars, cliVars>>

\* await executeCommand(`bun run ${modulePath} ${args} -o ${watchDir}`) for
\* the next module of the list
ModuleDone ==
  /\ request.pc = "module"
  /\ LET run == ModuleRun(request.body.module[request.next])
     IN IF run.ok
        THEN /\ watchDir' = StageFiles(watchDir, run.names)
             /\ request' = IF request.next < Len(request.body.module)
                           THEN [request EXCEPT !.next = @ + 1]
                           ELSE [request EXCEPT !.pc = "ok"]
        ELSE /\ watchDir' = watchDir
             /\ request' = [request EXCEPT !.pc = "error"]
  /\ UNCHANGED <<outputFolder, processedFiles, announced, startup, passes>>
  /\ UNCHANGED <<genVars, cliVars>>

(***************************************************************************)
(* The client: the canvas (page.tsx, group-node) and the info panel        *)
(***************************************************************************)
\* selectedNode === null
NoNode == [id |-> 0, type |-> "none", name |-> <<>>, parentId |-> 0]

\* the services of the menu the model drops, with the tools of provider aws
\* that become their child nodes (of Database: S3, DynamoDB and Route 53)
MenuChildren ==
  (<<"Virtual Machine (VM)">> :> << <<"EC2">> >>)
  @@ (<<"Database">> :> << <<"S3">>, <<"DynamoDB">>, <<"Route", " ", "53">> >>)

MenuServices == DOMAIN MenuChildren

\* name.replace(/\s+/g, '')
StripSpaces(name) == SelectSeq(name, LAMBDA t : t # " ")

\* the canvas at page load
EmptyCanvas ==
  /\ nodes = <<>>
  /\ shown = {}
  /\ selectedNode = NoNode
  /\ modules = <<>>

NodeIds == { nodes[i].id : i \in 1..Len(nodes) }

\* nanoid(): the n-th id that is in use nowhere
RECURSIVE NewId(_, _)
NewId(n, used) ==
  LET first == CHOOSE i \in 1..(Cardinality(used) + 1) : i \notin used
  IN IF n = 1 THEN first ELSE NewId(n - 1, used \cup {first})

UsedIds == NodeIds \cup {selectedNode.id}

\* getNode(id)
GetNode(id) == nodes[CHOOSE i \in 1..Len(nodes) : nodes[i].id = id]

GroupCount == Cardinality({ i \in 1..Len(nodes) : nodes[i].type = "GroupNode" })

\* onDrop: a group node for the dragged service is added and selected
OnDrop(name) ==
  /\ GroupCount < MaxGroups
  /\ LET newNode == [id |-> NewId(1, UsedIds), type |-> "GroupNode", name |-> name,
                     parentId |-> 0]
     IN /\ nodes' = Append(nodes, newNode)
        /\ selectedNode' = newNode
  /\ UNCHANGED <<shown, modules>>
  /\ UNCHANGED <<genVars, asmVars, srvVars>>

\* removeChildren
RemoveChildren(nds, id) == SelectSeq(nds, LAMBDA nd : nd.parentId # id)

\* addChildren('aws'): the children are removed and made anew
AddChildren(nds, group) ==
  LET children == MenuChildren[group.name]
  IN RemoveChildren(nds, group.id)
     \o [i \in 1..Len(children) |->
           [id |-> NewId(i, UsedIds), type |-> "ServiceNode", name |-> children[i],
            parentId |-> group.id]]

\* toggleShow of the group node id
ToggleShow(id) ==
  /\ id \in NodeIds
  /\ GetNode(id).type = "GroupNode"
  /\ IF id \in shown
     THEN /\ nodes' = RemoveChildren(nodes, id)
          /\ shown' = shown \ {id}
     ELSE /\ nodes' = AddChildren(nodes, GetNode(id))
          /\ shown' = shown \cup {id}
  /\ UNCHANGED <<selectedNode, modules>>
  /\ UNCHANGED <<genVars, asmVars, srvVars>>

\* selectNode (onNodeClick)
SelectNode(id) ==
  /\ id \in NodeIds
  /\ selectedNode' = GetNode(id)
  /\ UNCHANGED <<nodes, shown, modules>>
  /\ UNCHANGED <<genVars, asmVars, srvVars>>

\* onConnect: two module entries when both ends are service nodes
OnConnect(source, target) ==
  /\ source \in NodeIds /\ target \in NodeIds
  /\ Len(modules) + 2 <= MaxEntries
  /\ modules' =
       IF GetNode(source).type = "ServiceNode" /\ GetNode(target).type = "ServiceNode"
       THEN modules \o <<[name |-> StripSpaces(GetNode(source).name), args |-> <<>>],
                         [name |-> StripSpaces(GetNode(target).name), args |-> <<>>]>>
       ELSE modules
  /\ UNCHANGED <<nodes, shown, selectedNode>>
  /\ UNCHANGED <<genVars, asmVars, srvVars>>

\* deleteNode: the selected node and its children leave the canvas, the
\* modules named as the selected node leave the list; selectedNode stays
DeleteNode ==
  /\ selectedNode # NoNode
  /\ nodes' = SelectSeq(nodes, LAMBDA node : node.id # selectedNode.id
                                             /\ node.parentId # selectedNode.id)
  /\ modules' = SelectSeq(modules, LAMBDA module : module.name # selectedNode.name)
  /\ shown' = shown \ {selectedNode.id}
  /\ UNCHANGED selectedNode
  /\ UNCHANGED <<genVars, asmVars, srvVars>>

\* clearNode
ClearNode ==
  /\ nodes' = <<>>
  /\ selectedNode' = NoNode
  /\ modules' = <<>>
  /\ shown' = {}
  /\ UNCHANGED <<genVars, asmVars, srvVars>>

\* arg.startsWith(key)
StartsWith(arg, key) == Len(key) <= Len(arg) /\ SubSeq(arg, 1, Len(key)) = key

\* const [argKey] = arg.split(" ")
ArgKey(arg) == Split(arg, " ")[1]

\* newArg of handleChange: the key alone for a checked box, nothing for an
\* unchecked one, `${key} ${value}` for every other type
NewArg(key, value, type) ==
  IF type = "boolean"
  THEN (IF value = TRUE THEN key ELSE <<>>)
  ELSE key \o <<" ">> \o value

\* module.args.some((arg) => arg.startsWith(key))
ArgExists(args, key) == \E i \in 1..Len(args) : StartsWith(args[i], key)

\* newArgs.filter(Boolean) of handleChange
NewArgs(args, key, value, type) ==
  SelectSeq(IF ArgExists(args, key)
            THEN [i \in 1..Len(args) |->
                    IF ArgKey(args[i]) = key THEN NewArg(key, value, type) ELSE args[i]]
            ELSE Append(args, NewArg(key, value, type)),
            LAMBDA arg : arg # <<>>)

\* the args of a tool in the tools table, which the info panel maps into its
\* inputs (of DynamoDB the model takes three, of S3 two)
ToolArgs(name) ==
  CASE name = <<"DynamoDB">> ->
         { [key |-> <<"--", "hash", "-", "key">>, type |-> "string"],
           [key |-> <<"--", "hash", "-", "key", "-", "type">>, type |-> "string"],
           [key |-> <<"--", "stream", "-", "enabled">>, type |-> "boolean"] }
    [] name = <<"S3">> ->
         { [key |-> <<"--", "acl">>, type |-> "string"],
           [key |-> <<"--", "versioning">>, type |-> "boolean"] }
    [] OTHER -> {}

\* what the user types or ticks
PanelValues(type) == IF type = "boolean" THEN BOOLEAN ELSE { <<>>, <<"S">> }

\* handleChange(key, value, type) of the info panel
HandleChange(key, value, type) ==
  /\ selectedNode # NoNode
  /\ modules' = [i \in 1..Len(modules) |->
                   IF modules[i].name # selectedNode.name THEN modules[i]
                   ELSE [modules[i] EXCEPT !.args = NewArgs(@, key, value, type)]]
  /\ UNCHANGED <<nodes, shown, selectedNode>>
  /\ UNCHANGED <<genVars, asmVars, srvVars>>

(***************************************************************************)
(* Specifications                                                          *)
(***************************************************************************)
NoOptions == [none |-> TRUE]

\* no generator has run
GenIdle ==
  /\ gen = "none"
  /\ options = NoOptions
  /\ exitCode = -1
  /\ outDir = EmptyDir

\* defaultFiles: main.tf, variables.tf and output.tf exist, empty
DefaultOutput ==
  [t \in {<<"main", ".tf">>, <<"variables", ".tf">>, <<"output", ".tf">>} |-> <<>>]

\* the watcher at its start, over the files of a watch folder
WatcherStart(files) ==
  /\ watchDir = [f \in files |-> ContentOf(f)]
  /\ outputFolder = DefaultOutput
  /\ processedFiles = <<>>
  /\ announced = {}
  /\ startup = "readdir"
  /\ passes = <<>>

\* no request has come in
NoRequest == [pc |-> "idle", body |-> [provider |-> UNDEF, module |-> <<>>], next |-> 0]

ServerIdle == request = NoRequest

\* one generator invocation, next to a watcher over an empty folder
Init == GenIdle /\ WatcherStart({}) /\ ServerIdle /\ EmptyCanvas

NextDynamo == \E a \in DynamoArgs : RunDynamoDB(a)

SpecDynamo == Init /\ [][NextDynamo]_vars

NextCloudFront == \E a \in CloudFrontArgs : RunCloudFront(a)

SpecCloudFront == Init /\ [][NextCloudFront]_vars

NextGen ==
  \/ \E a \in EC2Args : RunEC2(a)
  \/ \E a \in S3Args : RunS3(a)
  \/ \E a \in LambdaArgs : RunLambda(a)
  \/ \E a \in IAMArgs : RunIAM(a)
  \/ \E a \in Route53Args : RunRoute53(a)

SpecGen == Init /\ [][NextGen]_vars

\* the watcher starts over any folder of at most MaxFiles files
InitWatcher ==
  /\ GenIdle
  /\ ServerIdle
  /\ EmptyCanvas
  /\ \E files \in SUBSET RacingNames :
       Cardinality(files) <= MaxFiles /\ WatcherStart(files)

\* the watcher under every interleaving of its handlers and passes
NextWatcher ==
  \/ \E f \in RacingNames : DropFile(f)
  \/ \E f \in RacingNames : WatcherAdd(f)
  \/ InitialRegeneration
  \/ PassStep

SpecWatcher == InitWatcher /\ [][NextWatcher]_vars

\* the watcher starts over any folder of at most MaxFiles files
InitAlone ==
  /\ GenIdle
  /\ ServerIdle
  /\ EmptyCanvas
  /\ \E files \in SUBSET StagedNames :
       Cardinality(files) <= MaxFiles /\ WatcherStart(files)

\* the watcher where every pass runs alone: nothing else happens while a pass
\* is in flight
NextAlone ==
  \/ InFlight = {} /\ \E f \in StagedNames : DropFile(f)
  \/ InFlight = {} /\ \E f \in StagedNames : WatcherAdd(f)
  \/ InFlight = {} /\ InitialRegeneration
  \/ PassStep

SpecAlone == InitAlone /\ [][NextAlone]_vars

\* the server and the watcher over an empty watch folder: one request, whose
\* generators run while the watcher handles the files they write; the passes
\* run one at a time, and the startup listing comes while the folder is small
NextBatch ==
  \/ \E body \in BatchBodies : PostGenerateFiles(body)
  \/ ProviderDone
  \/ ModuleDone
  \/ /\ InFlight = {}
     /\ Cardinality(announced) < MaxEvents
     /\ \E f \in DOMAIN watchDir : WatcherAdd(f)
  \/ /\ InFlight = {}
     /\ Cardinality(DOMAIN watchDir) <= MaxFiles
     /\ InitialRegeneration
  \/ PassStep

SpecBatch == Init /\ [][NextBatch]_vars

\* a file left by an earlier run
PriorArtifact == <<Variable("prior", <<"prior">>)>>

\* an output directory that holds the files of earlier runs of the scripts
PriorDir ==
  [f \in { DynamoVariablesFile, DynamoMainFile, DynamoOutputsFile,
           CloudFrontVariablesFile, CloudFrontMainFile, CloudFrontOutputsFile,
           Route53VariablesFile, Route53MainFile, Route53OutputsFile }
          \cup Range(ProviderFileNames) |-> PriorArtifact]

\* one invocation of a validating generator, on an empty output directory or
\* on one that holds the files of earlier runs
InitRerun ==
  /\ gen = "none"
  /\ options = NoOptions
  /\ exitCode = -1
  /\ outDir \in {EmptyDir, PriorDir}
  /\ WatcherStart({})
  /\ ServerIdle
  /\ EmptyCanvas

NextRerun ==
  \/ \E a \in DynamoArgs : RunDynamoDB(a)
  \/ \E a \in CloudFrontArgs : RunCloudFront(a)
  \/ \E a \in Route53Args : RunRoute53(a)
  \/ \E a \in ProviderArgs : RunProvider(a)

SpecRerun == InitRerun /\ [][NextRerun]_vars

\* the watcher where every pass runs alone and staged files may be deleted
\* between the passes
NextUnlink ==
  \/ InFlight = {} /\ \E f \in RacingNames : DropFile(f)
  \/ InFlight = {} /\ \E f \in RacingNames : UnlinkFile(f)
  \/ InFlight = {} /\ \E f \in RacingNames : WatcherAdd(f)
  \/ InFlight = {} /\ InitialRegeneration
  \/ PassStep

SpecUnlink == InitWatcher /\ [][NextUnlink]_vars

\* the watcher where every pass runs alone and staged files may be written
\* again between the passes
NextOverwrite ==
  \/ InFlight = {} /\ \E f \in RacingNames : DropFile(f)
  \/ InFlight = {} /\ \E f \in RacingNames : OverwriteFile(f)
  \/ InFlight = {} /\ \E f \in RacingNames : WatcherAdd(f)
  \/ InFlight = {} /\ InitialRegeneration
  \/ PassStep

\* the continuation of an awaited read, write or append always runs: a pass
\* in flight goes on until it returns; files are dropped and overwritten as
\* the environment pleases
SpecOverwrite == InitWatcher /\ [][NextOverwrite]_vars /\ WF_vars(PassStep)

\* the client alone: the canvas actions of the user
NextCanvas ==
  \/ \E name \in MenuServices : OnDrop(name)
  \/ \E id \in NodeIds : ToggleShow(id)
  \/ \E id \in NodeIds : SelectNode(id)
  \/ \E source, target \in NodeIds : OnConnect(source, target)
  \/ DeleteNode
  \/ ClearNode

SpecCanvas == Init /\ [][NextCanvas]_vars

\* the client alone: the user builds a canvas and fills in the info panel of
\* the selected node
NextPanel ==
  \/ \E name \in MenuServices : OnDrop(name)
  \/ \E id \in NodeIds : ToggleShow(id)
  \/ \E id \in NodeIds : SelectNode(id)
  \/ \E source, target \in NodeIds : OnConnect(source, target)
  \/ \E a \in ToolArgs(selectedNode.name) :
       \E value \in PanelValues(a.type) : HandleChange(a.key, value, a.type)

SpecPanel == Init /\ [][NextPanel]_vars

(***************************************************************************)
(* Claims                                                                  *)
(***************************************************************************)
\* the lines of kind "entry" of the default list of variable n, in order
RECURSIVE Entries(_, _)
Entries(art, n) ==
  IF art = <<>> THEN <<>>
  ELSE (IF Head(art).k = "entry" /\ Head(art).n = n THEN <<Head(art)>> ELSE <<>>)
       \o Entries(Tail(art), n)

\* the 0-based part of a raw record that a field of an entry is taken from
AttrFieldPart ==
  [f \in {"name", "type"} |-> IF f = "name" THEN 0 ELSE 1]

GsiFieldPart ==
  [f \in {"name", "hash_key", "hash_key_type", "range_key", "range_key_type"} |->
     CASE f = "name" -> 0
       [] f = "hash_key" -> 1
       [] f = "hash_key_type" -> 2
       [] f = "range_key" -> 3
       [] f = "range_key_type" -> 4]

\* every field of entry e that the grammar takes from the record is a part of
\* the record, and holds that part's text
EntryFromRecord(e, raw, part) ==
  LET parts == Split(raw, ":")
  IN \A j \in 1..Len(e.f) :
       e.f[j] \in DOMAIN part =>
         /\ part[e.f[j]] < Len(parts)
         /\ e.v[j] = parts[part[e.f[j]] + 1]

DynamoAccepted == gen = "dynamo" /\ exitCode = 0

\* C1: for every accepted DynamoDB option set, every var.<name> of main is
\* declared in variables, and variables holds exactly one attribute entry per
\* --attribute record and one index entry per --gsi record, in input order,
\* with fields equal to the colon-split fields of the record.
C1_DynamoRoundTrip ==
  DynamoAccepted =>
    LET v == outDir[DynamoVariablesFile]
        m == outDir[DynamoMainFile]
        attrs == Entries(v, "attributes")
        gsis == Entries(v, "global_secondary_indexes")
    IN /\ VarRefs(m) \subseteq VarDecls(v)
       /\ Len(attrs) = Len(options.attribute)
       /\ Len(gsis) = Len(options.gsi)
       /\ \A i \in 1..Len(attrs) : EntryFromRecord(attrs[i], options.attribute[i], AttrFieldPart)
       /\ \A i \in 1..Len(gsis) : EntryFromRecord(gsis[i], options.gsi[i], GsiFieldPart)

\* C1, the part that holds: references declared, one entry per record
C1_DynamoVarsDeclaredAndCounted ==
  DynamoAccepted =>
    LET v == outDir[DynamoVariablesFile]
        m == outDir[DynamoMainFile]
    IN /\ VarRefs(m) \subseteq VarDecls(v)
       /\ Len(Entries(v, "attributes")) = Len(options.attribute)
       /\ Len(Entries(v, "global_secondary_indexes")) = Len(options.gsi)

CloudFrontAccepted == gen = "cloudfront" /\ exitCode = 0

\* C2: for every accepted CloudFront option set, every var.<name> referenced
\* in the main artifact is declared in the variables artifact.
C2_CloudFrontVarsDeclared ==
  CloudFrontAccepted =>
    VarRefs(outDir[CloudFrontMainFile]) \subseteq VarDecls(outDir[CloudFrontVariablesFile])

\* C2 where a certificate ARN is given: every reference is declared
C2_CloudFrontVarsDeclaredWithCertificate ==
  (CloudFrontAccepted /\ Truthy(options.sslCertificateArn)) =>
    VarRefs(outDir[CloudFrontMainFile]) \subseteq VarDecls(outDir[CloudFrontVariablesFile])

\* C3: for each combination of --docker, --security, --vpc, --load-balancer,
\* every resource address referenced in main (attribute values, depends_on)
\* and in outputs names a resource block of main, and every var.<name>
\* referenced is declared in variables.
C3_EC2RefsDeclared ==
  (gen = "ec2" /\ exitCode = 0) =>
    /\ ResRefs(outDir[EC2MainFile]) \subseteq ResDecls(outDir[EC2MainFile])
    /\ ResRefs(outDir[EC2OutputsFile]) \subseteq ResDecls(outDir[EC2MainFile])
    /\ VarRefs(outDir[EC2MainFile]) \subseteq VarDecls(outDir[EC2VariablesFile])

\* C3, the parts that hold: var references, and the resource references of
\* the outputs artifact
C3_EC2VarsAndOutputsDeclared ==
  (gen = "ec2" /\ exitCode = 0) =>
    /\ ResRefs(outDir[EC2OutputsFile]) \subseteq ResDecls(outDir[EC2MainFile])
    /\ VarRefs(outDir[EC2MainFile]) \subseteq VarDecls(outDir[EC2VariablesFile])

\* every var.<name> and resource address referenced in main or outputs is
\* declared in variables or main
RefsDeclared(variablesTF, mainTF, outputsTF) ==
  /\ VarRefs(mainTF) \cup VarRefs(outputsTF) \subseteq VarDecls(variablesTF)
  /\ ResRefs(mainTF) \cup ResRefs(outputsTF) \subseteq ResDecls(mainTF)

\* the lines of the resource block of address addr: from its header up to the
\* next resource header
RECURSIVE BlockOf(_, _, _)
BlockOf(art, addr, inside) ==
  IF art = <<>> THEN <<>>
  ELSE IF Head(art).k = "resource"
       THEN BlockOf(Tail(art), addr, Head(art).n = addr)
       ELSE (IF inside THEN <<Head(art)>> ELSE <<>>) \o BlockOf(Tail(art), addr, inside)

\* the addresses of the record resources 1..n
RecordAddresses(n) == { "aws_route53_record.record_" \o ToString(i) : i \in 1..n }

\* Route53 with n records: main declares exactly record_1..record_n, record_i
\* reads var.dns_records[i-1], dns_records has n entries, outputs lists the n ids
Route53RecordsConsistent ==
  LET n == Len(options.record)
      v == outDir[Route53VariablesFile]
      m == outDir[Route53MainFile]
      out == Select(outDir[Route53OutputsFile], "output")
      ids == { i \in 1..Len(out) : out[i].n = "dns_record_ids" }
  IN /\ ResDecls(m) = {"aws_route53_zone.hosted_zone"} \cup RecordAddresses(n)
     /\ \A i \in 1..n :
          LET b == BlockOf(m, "aws_route53_record.record_" \o ToString(i), FALSE)
          IN /\ \E j \in 1..Len(b) : "dns_records" \in Range(b[j].vars)
             /\ \A j \in 1..Len(b) :
                  "dns_records" \in Range(b[j].vars) => b[j].v = <<(<<ToString(i - 1)>>)>>
     /\ Len(Entries(v, "dns_records")) = n
     /\ ("dns_records" \in VarDecls(v)) = (n > 0)
     /\ IF n = 0 THEN ids = {}
        ELSE /\ Cardinality(ids) = 1
             /\ \A i \in ids :
                  out[i].res = [j \in 1..n |-> "aws_route53_record.record_" \o ToString(j)]

\* C4: for every option set accepted by the S3, Lambda, IAM and Route53
\* generators, every var.<name> and every resource address referenced in main
\* or outputs is declared in the same invocation's variables or main; for
\* Route53 with n records the record resources, the dns_records entries and
\* the listed record ids are exactly those of the n records.
C4_RefsDeclared ==
  /\ (gen = "s3" /\ exitCode = 0) =>
       RefsDeclared(outDir[S3VariablesFile], outDir[S3MainFile], outDir[S3OutputsFile])
  /\ (gen = "lambda" /\ exitCode = 0) =>
       RefsDeclared(outDir[LambdaVariablesFile], outDir[LambdaMainFile],
                    outDir[LambdaOutputsFile])
  /\ (gen = "iam" /\ exitCode = 0) =>
       RefsDeclared(outDir[IAMVariablesFile], outDir[IAMMainFile], outDir[IAMOutputsFile])
  /\ (gen = "route53" /\ exitCode = 0) =>
       /\ RefsDeclared(outDir[Route53VariablesFile], outDir[Route53MainFile],
                       outDir[Route53OutputsFile])
       /\ Route53RecordsConsistent

\* witness of C4: an accepted private zone with two records
C4_Witness ==
  /\ gen = "route53" /\ exitCode = 0
  /\ Len(options.record) = 2
  /\ Route53Private(options)
  /\ options.preventDestroy

(***************************************************************************)
(* C5: passes in flight                                                    *)
(***************************************************************************)
\* C5: at most one assembly pass is in flight at any time: a new pass never
\* starts while an earlier one has not finished.
C5_OnePassInFlight == Cardinality(InFlight) <= 1

(***************************************************************************)
(* C6: passes and the generators of a request                              *)
(***************************************************************************)
\* C6: for one /generate-files request, no assembly pass starts before the
\* provider generator and every requested module generator of the request
\* have finished writing their staged artifacts.
C6_NoPassBeforeGeneratorsDone ==
  [][(Len(passes') > Len(passes) /\ announced' # announced) => ~Running]_vars

(***************************************************************************)
(* C7 to C10: the merged documents of passes that run alone                *)
(***************************************************************************)
\* the last underscore-separated part of the base name, as an integer; 0 if
\* it does not parse
TrailingNumber(f) ==
  LET parts == Split(BaseName(f), "_")
      r == ParseInt(parts[Len(parts)])
  IN IF r.nan THEN 0 ELSE r.n

\* the files a document's sections name, in order
SourcesOf(doc) == [i \in 1..Len(doc) |-> doc[i].from]

\* the processed files whose prefix is p
GroupOf(p) == { f \in Range(processedFiles) : Prefix(f) = p }

Prefixes == { Prefix(f) : f \in Range(processedFiles) }

\* the files a pass works on
FilesOf(pass) == UNION { Range(pass.groups[g].files) : g \in 1..Len(pass.groups) }

\* the last pass ran over the files processed now, and no pass is in flight
PassDoneAlone ==
  /\ passes # <<>>
  /\ InFlight = {}
  /\ FilesOf(passes[Len(passes)]) = Range(processedFiles)

Ascending(doc) ==
  \A i, j \in 1..Len(doc) :
    i < j => TrailingNumber(doc[i].from) <= TrailingNumber(doc[j].from)

\* C7: within one group a pass concatenates the staged files in ascending
\* order of the integer parsed from the last underscore-separated part of the
\* base name, compared numerically; a last part that does not parse as a
\* number counts as 0.
C7_AscendingByNumber ==
  /\ \A k \in 1..Len(passes) :
       passes[k].pc # "done" => Ascending([i \in 1..Len(passes[k].sorted) |->
                                             [from |-> passes[k].sorted[i]]])
  /\ PassDoneAlone =>
       \A p \in Prefixes :
         /\ Ascending(outputFolder[TargetFile(p)])
         /\ Range(SourcesOf(outputFolder[TargetFile(p)])) = GroupOf(p)

\* witness of C7: x_10 was discovered first and lambda (no number) last, and
\* the document has them in the order lambda (0), ec2_2, x_10
C7_Witness ==
  /\ PassDoneAlone
  /\ processedFiles = << <<"main", "_", "x", "_", "1", "0", ".tf">>,
                         <<"main", "_", "ec2", "_", "2", ".tf">>,
                         <<"main", "_", "lambda", ".tf">> >>
  /\ SourcesOf(outputFolder[<<"main", ".tf">>]) =
       << <<"main", "_", "lambda", ".tf">>,
          <<"main", "_", "ec2", "_", "2", ".tf">>,
          <<"main", "_", "x", "_", "1", "0", ".tf">> >>

\* C8: the merged document of a group is a function of the set of staged
\* files and their contents only: whatever the order in which the files were
\* discovered, the documents are the same, also when files of the group carry
\* the same trailing number.
C8_OrderIndependent ==
  PassDoneAlone =>
    \A q \in Orders(processedFiles) :
      \A p \in Prefixes :
        outputFolder[TargetFile(p)] = MergedFrom(q, watchDir)[TargetFile(p)]

\* the documents are those of the order in which the files were discovered
C8_MergedFromDiscoveryOrder ==
  PassDoneAlone =>
    \A p \in Prefixes :
      outputFolder[TargetFile(p)] = MergedFrom(processedFiles, watchDir)[TargetFile(p)]

\* C9: after a pass that runs alone and without I/O error, for every prefix
\* p among the processed files, output/p.tf consists exactly of one section
\* per file of group p, in sorted order, each naming the file and carrying
\* its current content; nothing of the previous content remains, and every
\* processed file is in exactly one merged file.
C9_MergedExactly ==
  PassDoneAlone =>
    /\ \A p \in Prefixes :
         /\ TargetFile(p) \in DOMAIN outputFolder
         /\ LET doc == outputFolder[TargetFile(p)]
            IN /\ Len(doc) = Cardinality(GroupOf(p))
               /\ Range(SourcesOf(doc)) = GroupOf(p)
               /\ Ascending(doc)
               /\ \A i \in 1..Len(doc) :
                    doc[i] = [from |-> doc[i].from, data |-> watchDir[doc[i].from]]
    /\ \A f \in Range(processedFiles) :
         Cardinality({ t \in DOMAIN outputFolder :
                         f \in Range(SourcesOf(outputFolder[t])) }) = 1

\* witness of C9: a second pass has rewritten main.tf, which the first pass
\* had written with one section, and has written a second group
C9_Witness ==
  /\ PassDoneAlone
  /\ Len(passes) >= 2
  /\ Len(passes[1].merged[<<"main", ".tf">>]) = 1
  /\ Len(outputFolder[<<"main", ".tf">>]) = 2
  /\ Len(outputFolder[<<"variables", ".tf">>]) = 1

\* C10: a pass run in sequence after another over an unchanged set of staged
\* files leaves merged documents identical to those the first pass left.
C10_Idempotent ==
  \A k \in 1..Len(passes) - 1 :
    ( /\ passes[k].pc = "done"
      /\ passes[k + 1].pc = "done"
      /\ FilesOf(passes[k]) = FilesOf(passes[k + 1]) ) =>
    passes[k + 1].merged = passes[k].merged

\* witness of C10: two passes in sequence over the same three files, two of
\* them in one group
C10_Witness ==
  \E k \in 1..Len(passes) - 1 :
    /\ passes[k].pc = "done"
    /\ passes[k + 1].pc = "done"
    /\ FilesOf(passes[k]) = FilesOf(passes[k + 1])
    /\ Cardinality(FilesOf(passes[k])) = 3
    /\ Len(passes[k + 1].merged[<<"main", ".tf">>]) = 2
    /\ Len(passes[k + 1].merged[<<"variables", ".tf">>]) = 1

(***************************************************************************)
(* C11: staging file names within one batch                                *)
(***************************************************************************)
\* the staging files the i-th module of the request writes
NamesOfModule(i) == Range(ModuleRun(request.body.module[i]).names)

\* the step is the run of the next module of the request
ModuleRuns == request.pc = "module" /\ request' # request

\* C11: within one batch no two module invocations write to the same staging
\* file name: the module that runs writes no file an earlier module of the
\* batch wrote, for modules of different and of the same resource type.
C11_NoSharedStagingName ==
  [][ModuleRuns =>
       \A i \in 1..request.next - 1 :
         NamesOfModule(request.next) \cap NamesOfModule(i) = {}]_vars

\* C11 for modules of different resource types
C11_DifferentTypesDisjoint ==
  [][ModuleRuns =>
       \A i \in 1..request.next - 1 :
         request.body.module[i].name # request.body.module[request.next].name =>
           NamesOfModule(request.next) \cap NamesOfModule(i) = {}]_vars

(***************************************************************************)
(* C12: failed invocations write nothing                                   *)
(***************************************************************************)
\* C12: when an invocation of the DynamoDB, CloudFront or Route53 generator
\* fails validation, or the provider generator is given an invalid provider,
\* none of its artifact files is created or modified.
C12_FailureWritesNothing == [][exitCode' = 1 => outDir' = outDir]_vars

\* witness of C12: a Route53 run has failed on a malformed record over a
\* directory that holds the files of earlier runs, which are as they were
C12_Witness ==
  /\ gen = "route53"
  /\ exitCode = 1
  /\ Route53Valid(options)
  /\ options.record # <<>>
  /\ outDir = PriorDir

(***************************************************************************)
(* C13: what the DynamoDB generator accepts                                *)
(***************************************************************************)
\* the three artifacts of the run are in the output directory
DynamoWritten ==
  {DynamoVariablesFile, DynamoMainFile, DynamoOutputsFile} \subseteq DOMAIN outDir

\* the rule of acceptance, on the options as given
DynamoRule ==
  /\ options.tableName # UNDEF /\ options.hashKey # UNDEF /\ options.hashKeyType # UNDEF
  /\ \/ options.billingMode # <<"PROVISIONED">>
     \/ ~options.readCapacity.undef /\ ~options.writeCapacity.undef
  /\ options.rangeKey = UNDEF \/ options.rangeKeyType # UNDEF
  /\ options.streamViewType = UNDEF \/ options.streamEnabled

\* C13: the DynamoDB generator accepts an option set, and writes its three
\* artifacts, if and only if the required options are given, PROVISIONED
\* comes with both capacities, a range key with its type and a stream view
\* type with stream-enabled; the billing mode is PAY_PER_REQUEST when not
\* given.
C13_DynamoAcceptsIff ==
  /\ gen = "dynamo" =>
       /\ (exitCode = 0) = DynamoRule
       /\ DynamoWritten = DynamoRule
       /\ exitCode \in {0, 1}
       /\ options.billingMode \in {<<"PAY_PER_REQUEST">>, <<"PROVISIONED">>}
  /\ \A a \in DynamoRequiredArgs :
       a.billingMode = UNDEF /\ DynamoOpts(a).billingMode = <<"PAY_PER_REQUEST">>

\* witness of C13: an accepted provisioned table with capacities, a typed
\* range key and a stream view type
C13_Witness ==
  /\ gen = "dynamo" /\ exitCode = 0 /\ DynamoWritten
  /\ options.billingMode = <<"PROVISIONED">>
  /\ options.rangeKey # UNDEF
  /\ options.streamViewType # UNDEF

\* a rejected option set: a stream view type without stream-enabled
C13_WitnessRejected ==
  /\ gen = "dynamo" /\ exitCode = 1 /\ ~DynamoWritten
  /\ options.streamViewType # UNDEF /\ ~options.streamEnabled
  /\ options.billingMode = <<"PAY_PER_REQUEST">>

(***************************************************************************)
(* C14: what the CloudFront generator rejects                              *)
(***************************************************************************)
\* the variables the line named n inside the nested block named block
\* references, in artifact art
VarsInBlock(art, block, n) ==
  UNION { Range(art[i + 1].vars) :
            i \in { j \in 1..Len(art) - 1 :
                      art[j].k = "block" /\ art[j].n = block /\ art[j + 1].n = n } }

\* the declared default of variable v in artifact art
DefaultsOf(art, v) ==
  { art[i].v[1] : i \in { j \in 1..Len(art) :
                            art[j].k = "variable" /\ art[j].n = v /\ art[j].v # <<>> } }

\* C14: the CloudFront generator rejects redirect-to-https (the default) or
\* https-only without a certificate ARN, logging without a logging bucket,
\* and blacklist or whitelist without ids; when a certificate ARN is given
\* and the set is accepted, the viewer_certificate block references a
\* variable whose declared default is exactly the ARN.
C14_CloudFrontRejects ==
  /\ gen = "cloudfront" =>
       /\ ( /\ options.viewerProtocolPolicy \in {<<"redirect-to-https">>, <<"https-only">>}
            /\ options.sslCertificateArn = UNDEF ) => exitCode = 1
       /\ (options.loggingEnabled /\ options.loggingS3Bucket = UNDEF) => exitCode = 1
       /\ ( /\ options.geoRestriction \in {<<"blacklist">>, <<"whitelist">>}
            /\ options.geoRestrictionIds = UNDEF ) => exitCode = 1
       /\ (exitCode = 0 /\ options.sslCertificateArn # UNDEF) =>
            LET refs == VarsInBlock(outDir[CloudFrontMainFile], "viewer_certificate",
                                    "acm_certificate_arn")
            IN /\ Cardinality(refs) = 1
               /\ \A v \in refs :
                    DefaultsOf(outDir[CloudFrontVariablesFile], v)
                      = {options.sslCertificateArn}
  /\ \A a \in CloudFrontArgs :
       a.viewerProtocolPolicy = UNDEF =>
         CloudFrontOpts(a).viewerProtocolPolicy = <<"redirect-to-https">>

\* witness of C14: https-only with a certificate ARN, logging with a bucket
\* and a whitelist with ids, accepted
C14_Witness ==
  /\ gen = "cloudfront" /\ exitCode = 0
  /\ options.viewerProtocolPolicy = <<"https-only">>
  /\ options.sslCertificateArn = <<"arn:aws:acm:cert">>
  /\ options.loggingEnabled
  /\ options.geoRestriction = <<"whitelist">>
  /\ DefaultsOf(outDir[CloudFrontVariablesFile], "ssl_certificate_arn")
       = {<<"arn:aws:acm:cert">>}

(***************************************************************************)
(* C15: what the Route53 generator rejects                                 *)
(***************************************************************************)
\* text part occurs in text whole
Contains(whole, part) ==
  \E i \in 1..Len(whole) - Len(part) + 1 : SubSeq(whole, i, i + Len(part) - 1) = part

\* a text of decimal digits
Numeric(s) == s # <<>> /\ \A i \in 1..Len(s) : IsDigit(s[i])

\* a record with fewer than 4 colon-delimited parts
TooFewParts(record) == Len(Split(record, ":")) < 4

\* a record whose time-to-live part is not numeric
TtlNotNumeric(record) ==
  ~TooFewParts(record) /\ ~Numeric(Split(record, ":")[4])

\* the run was given its hosted zone, and the zone passed its validation
Route53ZoneAccepted ==
  gen = "route53" /\ options.hostedZone # UNDEF /\ Route53Valid(options)

\* C15: the Route53 generator fails, with a message that contains the raw
\* record, for every record with fewer than 4 colon-delimited parts or with a
\* time-to-live part that is not numeric, and fails when the zone type is
\* PRIVATE in any case of letters and no vpc-id is given; the first offending
\* record stops the invocation.
C15_Route53Rejects ==
  /\ ( /\ gen = "route53"
       /\ ToUpperCase(options.hostedZoneType) = <<"PRIVATE">>
       /\ options.vpcId = UNDEF ) => exitCode = 1
  /\ Route53ZoneAccepted =>
       LET offending == { i \in 1..Len(options.record) :
                            \/ TooFewParts(options.record[i])
                            \/ TtlNotNumeric(options.record[i]) }
       IN offending # {} =>
            /\ exitCode = 1
            /\ Contains(Route53Stderr(options),
                        options.record[CHOOSE i \in offending : \A j \in offending : i <= j])

\* C15 without the suffixed time-to-live: records with too few parts, or
\* with a time-to-live that does not start with a digit, and private zones
\* without vpc-id are rejected with the raw record in the message
C15_Route53RejectsUnparsed ==
  /\ ( /\ gen = "route53"
       /\ ToUpperCase(options.hostedZoneType) = <<"PRIVATE">>
       /\ options.vpcId = UNDEF ) => exitCode = 1
  /\ Route53ZoneAccepted =>
       LET offending == { i \in 1..Len(options.record) :
                            \/ TooFewParts(options.record[i])
                            \/ ~IsDigit(Split(options.record[i], ":")[4][1]) }
       IN offending # {} =>
            /\ exitCode = 1
            /\ Contains(Route53Stderr(options),
                        options.record[CHOOSE i \in offending : \A j \in offending : i <= j])

\* the number of resource blocks of address addr an artifact declares
HeadersOf(art, addr) ==
  Cardinality({ i \in 1..Len(art) : art[i].k = "resource" /\ art[i].n = addr })

\* the resource addresses listed by the depends_on lines of a block
DependsOnOf(block) ==
  UNION { Range(block[i].res) : i \in { j \in 1..Len(block) : block[j].k = "depends_on" } }

\* the attachment of address addr in main: exactly one block if wanted, none
\* otherwise; its depends_on lists exactly the target and the policy, both
\* declared in main
AttachmentAsSpecified(mainTF, addr, wanted, target) ==
  /\ HeadersOf(mainTF, addr) = (IF wanted THEN 1 ELSE 0)
  /\ wanted =>
       /\ DependsOnOf(BlockOf(mainTF, addr, FALSE)) = {target, "aws_iam_policy.policy"}
       /\ {target, "aws_iam_policy.policy"} \subseteq ResDecls(mainTF)
       /\ HeadersOf(mainTF, target) = 1
       /\ HeadersOf(mainTF, "aws_iam_policy.policy") = 1

\* C16: the IAM main artifact contains exactly one role-policy attachment
\* block if attach-policy-role, policy and role are all supplied and none
\* otherwise; its depends_on lists the role and the policy resources, both
\* declared in the same artifact.  The same holds for the user-policy
\* attachment with attach-policy-user, policy and user.
C16_IAMAttachments ==
  gen = "iam" =>
    /\ exitCode = 0
    /\ AttachmentAsSpecified(outDir[IAMMainFile],
         "aws_iam_role_policy_attachment.role_policy_attachment",
         options.attachPolicyRole # UNDEF /\ options.policy # UNDEF /\ options.role # UNDEF,
         "aws_iam_role.role")
    /\ AttachmentAsSpecified(outDir[IAMMainFile],
         "aws_iam_user_policy_attachment.user_policy_attachment",
         options.attachPolicyUser # UNDEF /\ options.policy # UNDEF /\ options.user # UNDEF,
         "aws_iam_user.user")

\* witness of C16: attach-policy-role given without a role (no role
\* attachment), while the user attachment is emitted
C16_Witness ==
  /\ gen = "iam"
  /\ options.attachPolicyRole # UNDEF /\ options.role = UNDEF
  /\ options.attachPolicyUser # UNDEF /\ options.policy # UNDEF /\ options.user # UNDEF
  /\ HeadersOf(outDir[IAMMainFile],
               "aws_iam_user_policy_attachment.user_policy_attachment") = 1
  /\ HeadersOf(outDir[IAMMainFile],
               "aws_iam_role_policy_attachment.role_policy_attachment") = 0

\* second witness of C16: the role attachment is emitted
C16_WitnessRole ==
  /\ gen = "iam"
  /\ options.attachPolicyRole # UNDEF /\ options.policy # UNDEF /\ options.role # UNDEF
  /\ HeadersOf(outDir[IAMMainFile],
               "aws_iam_role_policy_attachment.role_policy_attachment") = 1

\* the resource addresses the depends_on of aws_instance.ec2 lists
InstanceDependsOn == DependsOnOf(BlockOf(outDir[EC2MainFile], "aws_instance.ec2", FALSE))

C17_InstanceDependsOnNames ==
  (gen = "ec2" /\ options.loadBalancer) =>
    /\ "aws_security_group.sg" \in InstanceDependsOn
    /\ ("aws_subnet.main" \in InstanceDependsOn) = options.vpc

\* with --security the listed resources are all declared
C17_InstanceDependsOnWithSecurity ==
  (gen = "ec2" /\ options.loadBalancer /\ options.security) =>
    InstanceDependsOn \subseteq ResDecls(outDir[EC2MainFile])

\* the records of a list that split into fewer than n colon-delimited parts
ShortRecords(records, n) ==
  { i \in 1..Len(records) : Len(Split(records[i], ":")) < n }

\* an entry holds a field whose value is the text of an undefined part
HasMissingField(e) == \E j \in 1..Len(e.v) : e.v[j] = <<"undefined">>

\* C18: the DynamoDB generator rejects, before writing any artifact, every
\* --attribute record with fewer than 2 colon-delimited parts and every --gsi
\* record with fewer than 3; no artifact contains a field taken from a missing
\* part of a record.
C18_DynamoRejectsShortRecords ==
  gen = "dynamo" =>
    /\ (ShortRecords(options.attribute, 2) # {} \/ ShortRecords(options.gsi, 3) # {}) =>
         exitCode = 1 /\ outDir = EmptyDir
    /\ \A f \in DOMAIN outDir : \A i \in 1..Len(outDir[f]) :
         outDir[f][i].k = "entry" => ~HasMissingField(outDir[f][i])

\* the attribute half alone: a one-part --attribute record is rejected
C18_DynamoRejectsShortAttribute ==
  (gen = "dynamo" /\ ShortRecords(options.attribute, 2) # {}) => exitCode = 1

\* the index half alone: a two-part --gsi record is rejected
C18_DynamoRejectsShortGsi ==
  (gen = "dynamo" /\ ShortRecords(options.gsi, 3) # {}) => exitCode = 1

(***************************************************************************)
(* C19: module-level isolation within one batch                            *)
(***************************************************************************)
\* the request has been answered
Answered == request.pc \in {"ok", "error"}

\* the generator of the i-th module of the request has been run
ModuleWasRun(i) == i <= request.next

\* the i-th module of the request is valid: its command resolves
ModuleIsValid(i) == ModuleRun(request.body.module[i]).ok

\* C19: in one /generate-files batch the failure of one module's generator
\* does not prevent the generators of the other, valid modules of the batch
\* from being run, whatever the position of the failing module: when the
\* request is answered, every valid module has been run and its files are in
\* the watch folder.
C19_ModuleIsolation ==
  (Answered /\ ProviderValid(request.body.provider)) =>
    \A i \in 1..Len(request.body.module) :
      ModuleIsValid(i) =>
        /\ ModuleWasRun(i)
        /\ NamesOfModule(i) \subseteq DOMAIN watchDir

\* the valid modules listed before the first failing one are run
C19_ModulesBeforeFailureRun ==
  (Answered /\ ProviderValid(request.body.provider)) =>
    \A i \in 1..Len(request.body.module) :
      (\A j \in 1..i : ModuleIsValid(j)) =>
        /\ ModuleWasRun(i)
        /\ NamesOfModule(i) \subseteq DOMAIN watchDir

(***************************************************************************)
(* C20: errors of a pass                                                   *)
(***************************************************************************)
\* the pass has returned to its caller without throwing
Returned(k) == passes[k].pc = "done"

\* a read or a write of the pass has failed
PassFailed(k) == passes[k].caught # <<>>

\* the files whose section is in document doc
SourcesIn(doc) == { doc[i].from : i \in 1..Len(doc) }

\* every member of every group of the pass is in the group's merged document
NoMemberLeftOut(k) ==
  \A g \in 1..Len(passes[k].groups) :
    LET target == TargetFile(passes[k].groups[g].prefix)
    IN /\ target \in DOMAIN passes[k].merged
       /\ Range(passes[k].groups[g].files) \subseteq SourcesIn(passes[k].merged[target])

\* C20: if a staged file of a group cannot be read during a pass, the error is
\* surfaced to the caller of the pass (the pass does not return as if it had
\* succeeded), and no member of a group is silently left out of the group's
\* merged document.
C20_ErrorsSurfaced ==
  \A k \in 1..Len(passes) :
    Returned(k) => (~PassFailed(k) /\ NoMemberLeftOut(k))

\* a pass whose reads all succeed leaves no member out
C20_NoFailureNoMemberLeftOut ==
  \A k \in 1..Len(passes) :
    (Returned(k) /\ ~PassFailed(k)) => NoMemberLeftOut(k)

(***************************************************************************)
(* C21: the names of the staged files                                      *)
(***************************************************************************)
ArtifactKinds == {"main", "variables", "outputs"}

\* f reads <kind>_<resourceType>_<sequence>.tf with a decimal sequence
WellFormedName(f) ==
  LET parts == Split(BaseName(f), "_")
  IN /\ f # <<>> /\ f[Len(f)] = ".tf"
     /\ Len(parts) = 3
     /\ parts[1] \in { <<k>> : k \in ArtifactKinds }
     /\ Len(parts[2]) = 1
     /\ parts[3] # <<>>
     /\ \A i \in 1..Len(parts[3]) : IsDigit(parts[3][i])

\* C21: every file a generator writes into the staging directory has a name
\* of the form <kind>_<resourceType>_<sequence>.tf, where <kind> is one of
\* main, variables, outputs and <sequence> is a decimal integer.
C21_StagedNamesWellFormed ==
  \A f \in DOMAIN outDir : WellFormedName(f)

\* the generators that number their files: EC2, S3, IAM and Route53
C21_NumberedNamesWellFormed ==
  gen \in {"ec2", "s3", "iam", "route53"} =>
    \A f \in DOMAIN outDir : WellFormedName(f)

(***************************************************************************)
(* C22: the geo restriction ids                                            *)
(***************************************************************************)
\* the lines of the variables artifact that declare geo_restriction_ids
GeoIdsDecls ==
  LET v == outDir[CloudFrontVariablesFile]
  IN { i \in 1..Len(v) : v[i].k = "variable" /\ v[i].n = "geo_restriction_ids" }

\* the geo_restriction block of main reads var.geo_restriction_ids
LocationsReferenced ==
  LET m == outDir[CloudFrontMainFile]
  IN \E i \in 1..Len(m) : m[i].n = "locations" /\ m[i].vars = <<"geo_restriction_ids">>

\* the segments of the supplied string, trimmed and upper-cased, in order
SegmentsOf(ids) ==
  LET segs == Split(ids, ",")
  IN [i \in 1..Len(segs) |-> ToUpperCase(Trim(segs[i]))]

Restricting == options.geoRestriction \in { <<"blacklist">>, <<"whitelist">> }

\* C22: whenever the CloudFront generator accepts an option set with geo
\* restriction blacklist or whitelist, geo_restriction_ids is declared and its
\* default is a non-empty list of the comma-separated segments of the supplied
\* string, each trimmed and upper-cased, in input order; and the
\* geo_restriction block has a locations reference if and only if that
\* variable is declared.
C22_GeoRestrictionIds ==
  CloudFrontAccepted =>
    /\ Restricting =>
         /\ Cardinality(GeoIdsDecls) = 1
         /\ \A i \in GeoIdsDecls :
              LET d == outDir[CloudFrontVariablesFile][i]
              IN /\ d.v # <<>>
                 /\ d.v = SegmentsOf(options.geoRestrictionIds)
                 /\ \A j \in 1..Len(d.f) : d.f[j] = "default"
    /\ LocationsReferenced = (GeoIdsDecls # {})

\* witness of C22: an accepted blacklist whose ids need trimming and
\* upper-casing
C22_Witness ==
  /\ CloudFrontAccepted
  /\ options.geoRestriction = <<"blacklist">>
  /\ options.geoRestrictionIds = <<" ", "de", " ", ",", "us">>
  /\ LocationsReferenced
  /\ \E i \in GeoIdsDecls : outDir[CloudFrontVariablesFile][i].v = << <<"DE">>, <<"US">> >>

(***************************************************************************)
(* C23: the capacities of the secondary indexes                            *)
(***************************************************************************)
\* the lines of the first nested block of art, up to its closing brace
RECURSIVE UpToEnd(_)
UpToEnd(art) ==
  IF art = <<>> \/ Head(art).k = "end" THEN <<>>
  ELSE <<Head(art)>> \o UpToEnd(Tail(art))

\* the bodies of the nested blocks named n of an artifact, in order
RECURSIVE BlocksNamed(_, _)
BlocksNamed(art, n) ==
  IF art = <<>> THEN <<>>
  ELSE (IF Head(art).k = "block" /\ Head(art).n = n
        THEN <<UpToEnd(Tail(art))>> ELSE <<>>)
       \o BlocksNamed(Tail(art), n)

\* the values an entry of a default list gives to field n
EntryValues(e, n) == { e.v[j] : j \in { i \in 1..Len(e.f) : e.f[i] = n } }

\* the values the lines of a block give to argument n
BlockValues(b, n) ==
  UNION { Range(b[j].v) : j \in { i \in 1..Len(b) : b[i].k = "arg" /\ b[i].n = n } }

\* the record does not supply the 0-based part p
NotSupplied(raw, p) ==
  LET parts == Split(raw, ":") IN Len(parts) <= p \/ parts[p + 1] = <<>>

Provisioned == options.billingMode = <<"PROVISIONED">>

\* C23: for every --gsi record the emitted secondary-index entry carries
\* read_capacity and write_capacity if and only if the billing mode is
\* PROVISIONED; when it is PROVISIONED and the record does not supply them
\* both are 5; and the capacities of an index in the variables artifact equal
\* those of the same index in the main artifact.
C23_GsiCapacities ==
  DynamoAccepted =>
    LET gsis == Entries(outDir[DynamoVariablesFile], "global_secondary_indexes")
        blocks == BlocksNamed(outDir[DynamoMainFile], "global_secondary_index")
    IN /\ Len(gsis) = Len(options.gsi)
       /\ Len(blocks) = Len(options.gsi)
       /\ \A i \in 1..Len(options.gsi) :
            \A c \in {"read_capacity", "write_capacity"} :
              /\ (EntryValues(gsis[i], c) # {}) = Provisioned
              /\ (BlockValues(blocks[i], c) # {}) = Provisioned
              /\ Cardinality(EntryValues(gsis[i], c)) <= 1
              /\ EntryValues(gsis[i], c) = BlockValues(blocks[i], c)
              /\ (Provisioned
                  /\ NotSupplied(options.gsi[i], IF c = "read_capacity" THEN 5 ELSE 6)) =>
                   EntryValues(gsis[i], c) = { <<"5">> }

\* witness of C23: a provisioned table with an index that supplies its
\* capacities and one that does not
C23_Witness ==
  /\ DynamoAccepted /\ Provisioned
  /\ Len(options.gsi) = 2
  /\ LET blocks == BlocksNamed(outDir[DynamoMainFile], "global_secondary_index")
     IN /\ Len(blocks) = 2
        /\ BlockValues(blocks[1], "read_capacity") = { <<"7">> }
        /\ BlockValues(blocks[1], "write_capacity") = { <<"8">> }
        /\ BlockValues(blocks[2], "read_capacity") = { <<"5">> }
        /\ BlockValues(blocks[2], "write_capacity") = { <<"5">> }

\* second witness of C23: indexes without capacities under PAY_PER_REQUEST
C23_WitnessOnDemand ==
  /\ DynamoAccepted /\ ~Provisioned
  /\ Len(options.gsi) = 1
  /\ Len(Split(options.gsi[1], ":")) = 7
  /\ LET blocks == BlocksNamed(outDir[DynamoMainFile], "global_secondary_index")
     IN Len(blocks) = 1 /\ BlockValues(blocks[1], "read_capacity") = {}

(***************************************************************************)
(* C24: the merged documents after interleaved passes                      *)
(***************************************************************************)
\* every call of regenerateTargetFiles has returned, and the last one started
\* over the files processed now
AllPassesFinished ==
  /\ passes # <<>>
  /\ InFlight = {}
  /\ startup = "done"
  /\ FilesOf(passes[Len(passes)]) = Range(processedFiles)

\* document doc holds every file of group p exactly once, in sorted order
ExactlyOnceSorted(doc, p) ==
  /\ Len(doc) = Cardinality(GroupOf(p))
  /\ Range(SourcesOf(doc)) = GroupOf(p)
  /\ Ascending(doc)

\* C24: under every interleaving of the startup pass and the passes started
\* by 'add' events, once all passes have finished each merged document
\* contains every processed staged file of its group exactly once, in sorted
\* order, with no duplicated, missing or interleaved section.
C24_MergedAfterInterleaving ==
  AllPassesFinished =>
    \A p \in Prefixes :
      /\ TargetFile(p) \in DOMAIN outputFolder
      /\ ExactlyOnceSorted(outputFolder[TargetFile(p)], p)


(***************************************************************************)
(* C25: a processed file is overwritten                                    *)
(***************************************************************************)
\* processed file f holds new content in the watch folder
Overwritten(f) ==
  /\ f \in Range(processedFiles)
  /\ f \in DOMAIN watchDir
  /\ watchDir[f] = NewContentOf(f)

\* the merged document of the group of f holds the new content of f
NewContentMerged(f) ==
  /\ TargetFile(Prefix(f)) \in DOMAIN outputFolder
  /\ Section(f, NewContentOf(f)) \in Range(outputFolder[TargetFile(Prefix(f))])

\* no handler of the watcher is waiting to run: the startup listing is done
\* and every file of the watch folder has had its 'add' event handled
NoEventPending == startup = "done" /\ DOMAIN watchDir \subseteq announced

\* C25: if a staged file the watcher has already processed is overwritten
\* with new content, then eventually the merged document of its group
\* contains the new content, without any further file having to be added to
\* the watch folder (a file whose 'add' event is still to be handled).
C25_OverwriteEventuallyMerged ==
  \A f \in RacingNames :
    (Overwritten(f) /\ NoEventPending) ~> (NewContentMerged(f) \/ ~NoEventPending)

\* a file overwritten before any pass has read it is merged with its new
\* content by the passes that follow
C25_NewContentReadWhenPassFollows ==
  \A k \in 1..Len(passes) :
    (passes[k].pc = "append" /\ passes[k].data # <<>>) =>
      passes[k].data = watchDir[passes[k].sorted[passes[k].i]]

\* ---------------------------------------------------------------------------
\* C26

\* `${key} ${value}`
EntryOf(key, value) == key \o <<" ">> \o value

HasEntry(args, entry) == \E i \in 1..Len(args) : args[i] = entry

\* the text inputs of a tool and the non-empty values typed into them
TextKeys(name) == { a \in ToolArgs(name) : a.type # "boolean" }

TypedValues == { v \in PanelValues("string") : v # <<>> }

\* C26: whatever args a module of the list holds, handleChange(key, v, type)
\* with a non-boolean type and a non-empty v leaves the entry "key v" in the
\* args of that module, also when an arg is present whose key has `key` as
\* a proper prefix
C26_HandleChangeSetsEntry ==
  \A i \in 1..Len(modules) :
    \A a \in TextKeys(modules[i].name) :
      \A v \in TypedValues :
        HasEntry(NewArgs(modules[i].args, a.key, v, a.type), EntryOf(a.key, v))

\* the same with no arg of a longer key present: there the entry is set
C26_SetsEntryWithoutLongerKey ==
  \A i \in 1..Len(modules) :
    \A a \in TextKeys(modules[i].name) :
      \A v \in TypedValues :
        (\A j \in 1..Len(modules[i].args) :
            StartsWith(modules[i].args[j], a.key) => ArgKey(modules[i].args[j]) = a.key)
        => HasEntry(NewArgs(modules[i].args, a.key, v, a.type), EntryOf(a.key, v))

\* ---------------------------------------------------------------------------
\* C27

\* a service node of the canvas whose name, stored as onConnect stores it,
\* is the name of the module
OnCanvas(module) ==
  \E i \in 1..Len(nodes) :
    /\ nodes[i].type = "ServiceNode"
    /\ StripSpaces(nodes[i].name) = module.name

\* C27: after any sequence of drop, expand/collapse, connect, deleteNode and
\* clearNode every entry of the modules list names a service node that is on
\* the canvas
C27_ModulesOnCanvas == \A i \in 1..Len(modules) : OnCanvas(modules[i])

\* clearNode alone does what the claim says: it leaves no entry
C27_ClearLeavesNoModule == [][ClearNode => modules' = <<>>]_vars

\* so does deleteNode of a selected service node whose name holds no blank
C27_DeleteRemovesNamedService ==
  [][(DeleteNode /\ selectedNode.type = "ServiceNode"
        /\ StripSpaces(selectedNode.name) = selectedNode.name)
      => \A i \in 1..Len(modules') : modules'[i].name # selectedNode.name]_vars

\* ---------------------------------------------------------------------------
\* C28

\* pass k returns in this step
Returns(k) == passes[k].pc # "done" /\ passes'[k].pc = "done"

\* the members of a group that have been removed from the watch folder, and
\* those that remain
RemovedOf(group) == { f \in Range(group.files) : f \notin DOMAIN watchDir }

RemainingOf(group) == Range(group.files) \ RemovedOf(group)

\* the merged document of the group holds every remaining file and nothing
\* of a removed one
RemainingMerged(group, folder) ==
  LET target == TargetFile(group.prefix)
  IN /\ target \in DOMAIN folder
     /\ RemainingOf(group) \subseteq SourcesIn(folder[target])
     /\ RemovedOf(group) \cap SourcesIn(folder[target]) = {}

\* C28: after a staged file has been removed from the watch folder, every
\* later assembly pass still writes all the remaining files of that file's
\* group into the group's merged document, and the removed file's content
\* is no longer part of it
C28_RemainingFilesMerged ==
  [][\A k \in 1..Len(passes) :
       Returns(k) =>
         \A g \in 1..Len(passes[k].groups) :
           RemovedOf(passes[k].groups[g]) # {}
             => RemainingMerged(passes[k].groups[g], outputFolder')]_vars

\* the second half alone holds: a removed file cannot be read, so no pass
\* that returns after the removal leaves a section of it
C28_RemovedContentGone ==
  [][\A k \in 1..Len(passes) :
       Returns(k) =>
         \A g \in 1..Len(passes[k].groups) :
           LET target == TargetFile(passes[k].groups[g].prefix)
           IN target \in DOMAIN outputFolder'
              => RemovedOf(passes[k].groups[g]) \cap SourcesIn(outputFolder'[target]) = {}]_vars

\* ---------------------------------------------------------------------------
\* C29

\* the texts the lines `n = "..."` of a block give, in order
TextsOf(b, n) ==
  LET ls == SelectSeq(b, LAMBDA l : l.k = "arg" /\ l.n = n)
  IN [i \in 1..Len(ls) |-> ls[i].v[1]]

\* the block holds one name and one type, those of the record
HoldsRecord(b, attr) ==
  /\ TextsOf(b, "name") = <<Interp(At(Split(attr, ":"), 0))>>
  /\ TextsOf(b, "type") = <<Interp(At(Split(attr, ":"), 1))>>

\* C29: for k >= 1 --attribute records the definition artifact holds exactly
\* k attribute blocks, each with exactly one name and one type taken from
\* one record, in input order
C29_OneBlockPerAttribute ==
  (DynamoAccepted /\ Len(options.attribute) >= 1) =>
    LET blocks == BlocksNamed(outDir[DynamoMainFile], "attribute")
    IN /\ Len(blocks) = Len(options.attribute)
       /\ \A i \in 1..Len(options.attribute) : HoldsRecord(blocks[i], options.attribute[i])

\* with one record the artifact is as the claim says
C29_OneRecordOneBlock ==
  (DynamoAccepted /\ Len(options.attribute) = 1) =>
    LET blocks == BlocksNamed(outDir[DynamoMainFile], "attribute")
    IN Len(blocks) = 1 /\ HoldsRecord(blocks[1], options.attribute[1])

\* with any number of records the names and types are all there, in input
\* order, inside a single block
C29_AllRecordsInOneBlock ==
  (DynamoAccepted /\ Len(options.attribute) >= 1) =>
    LET blocks == BlocksNamed(outDir[DynamoMainFile], "attribute")
    IN /\ Len(blocks) = 1
       /\ TextsOf(blocks[1], "name")
            = [i \in 1..Len(options.attribute) |->
                 Interp(At(Split(options.attribute[i], ":"), 0))]
       /\ TextsOf(blocks[1], "type")
            = [i \in 1..Len(options.attribute) |->
                 Interp(At(Split(options.attribute[i], ":"), 1))]

\* ---------------------------------------------------------------------------
\* C30

\* the decimal digits of a natural number
RECURSIVE DigitsOf(_)
DigitsOf(n) ==
  IF n < 10 THEN <<Digits[n + 1]>> ELSE Append(DigitsOf(n \div 10), Digits[(n % 10) + 1])

\* [type, name, value, ttl].join(':') of a parsed record
JoinRecord(r) ==
  r.type \o <<":">> \o r.name \o <<":">> \o r.value \o <<":">> \o DigitsOf(r.ttl.n)

\* the raw record with its type in upper case
UpperTyped(record) ==
  LET type == Split(record, ":")[1]
  IN ToUpperCase(type) \o SubSeq(record, Len(type) + 1, Len(record))

Route53Accepted == gen = "route53" /\ exitCode = 0

\* C30: record parsing is lossless on every record it accepts: joining the
\* parsed type, name, value and ttl with colons gives back the raw record up
\* to the upper-casing of the type
C30_ParsingLossless ==
  Route53Accepted =>
    \A i \in 1..Len(options.record) :
      JoinRecord(ParseDNSRecord(options.record[i])) = UpperTyped(options.record[i])

\* on the accepted records of exactly 4 parts whose time-to-live is a
\* number written without leading zero the parsing is lossless
C30_LosslessOnExactRecords ==
  Route53Accepted =>
    \A i \in 1..Len(options.record) :
      LET parts == Split(options.record[i], ":")
      IN (Len(parts) = 4 /\ Numeric(parts[4]) /\ (Len(parts[4]) = 1 \/ parts[4][1] # "0"))
           => JoinRecord(ParseDNSRecord(options.record[i])) = UpperTyped(options.record[i])

\* an accepted run with a record of exactly 4 parts
C30_ExactRecordAccepted ==
  /\ Route53Accepted
  /\ \E i \in 1..Len(options.record) :
       /\ Len(Split(options.record[i], ":")) = 4
       /\ JoinRecord(ParseDNSRecord(options.record[i])) = UpperTyped(options.record[i])
====
